---------------------------- MODULE Spec2Model ----------------------------
(***************************************************************************)
(* Selection-state reconciliation of the DYMO label generator (src/app.py).*)
(*                                                                         *)
(* The Streamlit script main() is re-run from the top on every user        *)
(* interaction ("pass").  A pass is modelled as the sequence of its        *)
(* straight-line sections, each one action, ordered by pc:                 *)
(*   validate -> fingerprint -> purge -> groups -> bulk -> form ->         *)
(*   resolve -> prune -> finish                                            *)
(* st.stop() ends the pass (pc = "idle"); st.rerun() starts a new pass on  *)
(* the same widget state (pc = "validate", ev.kind = "rerun").             *)
(*                                                                         *)
(* Widget return values (uploaded file, group checkboxes, search box,      *)
(* buttons, the edited table) are the inputs of a pass.  One interaction   *)
(* starts one pass.  Datasets carry the columns Code, Desc, Group and      *)
(* Barcode of the required file format (app.py:13-15), or lack the column  *)
(* Barcode; read_excel_data fills missing cells with "" (utils.py:90-92),  *)
(* so a missing Barcode is the empty string.  Text is a sequence of        *)
(* lower-case characters.  The template file template_update.dymo exists   *)
(* (app.py:139-142).                                                       *)
(*                                                                         *)
(* Specifications:                                                         *)
(*   Spec           the page up to the prune, the rest of a pass rendered  *)
(*                  in one step (no click on the generate button)          *)
(*   SpecGenerate   the page on sample spreadsheets with the summary,      *)
(*                  validation, generation and download sections           *)
(*   SpecReconcile  resolution and prune of one dataset in two row orders  *)
(*   SpecValidate   utils.validate_data                                    *)
(*   SpecMerge      utils.merge_product_ean_data                           *)
(*   SpecLabels     utils.generate_labels and utils.create_zip_archive     *)
(*   SpecCli        generate_dymo_files.main                               *)
(*   SpecFilename   utils.build_filename on patterns of a few parts        *)
(*   SpecSubmit     one submit of the override table (diff and commit)     *)
(*   SpecEditor     the page with the edit state of the override table     *)
(*   SpecRerun      the page on spreadsheets of many groups with the       *)
(*                  buttons "Mostra altri" / "Mostra meno", under weak     *)
(*                  fairness of the running script                         *)
(* SpecReconcile, SpecValidate, SpecMerge, SpecLabels, SpecCli,            *)
(* SpecFilename and SpecSubmit draw the arguments of one call in their     *)
(* initial state and make the call in one step (fn_args, fn_result).       *)
(***************************************************************************)
EXTENDS Integers, Sequences, FiniteSets, TLC

VARIABLES
    uploaded_file,        \* st.file_uploader value: the file held by the uploader
    desc_search,          \* value of the product search box (key desc_search_input)
    uploaded_files,       \* st.session_state['uploaded_files']: <<>> when absent
    selected_groups,      \* st.session_state['selected_groups'] (a list)
    selection_override,   \* st.session_state['selection_override'] (Barcode -> bool)
    selection_version,    \* st.session_state['selection_version']
    pc,                   \* position of the running pass, "idle" between passes
    ev,                   \* the interaction that started the running pass
    manual_selections,    \* local manual_selections of the running pass
    df_full_final,        \* column 'Selected' of local df_full_final (by row position)
    page,                 \* what the pass has put on the page: the view and its list
    template_xml,         \* local template_xml of the running pass, <<>> before it is read
    zip_file,             \* st.session_state['zip_file']: <<>> when absent
    num_labels,           \* st.session_state['num_labels']: 0 when absent
    generated,            \* st.session_state.get('generated', False)
    edited_rows,          \* the n whose st.session_state['product_selector_<n>'] holds edits
    display_limit,        \* st.session_state['groups_display_limit']
    h_override_start,     \* history: selection_override when the pass started
    h_override_commit,    \* history: selection_override when resolution started
    h_last_keys,          \* history: Barcodes of the dataset of the last purge
    h_new_keys,           \* history: Barcodes the last purge saw for the first time
    h_reset,              \* history: the running pass took the new-upload reset
    h_prev,               \* history: outcome of the previous pass on this dataset
    fn_args,              \* arguments of a call of a function of utils.py or of the CLI
    fn_result             \* what that call returned, NoCall before it returns

\* the variables of the Streamlit page
app == <<uploaded_file, desc_search, uploaded_files, selected_groups,
         selection_override, selection_version, pc, ev, manual_selections,
         df_full_final, page, template_xml, zip_file, num_labels, generated,
         edited_rows, display_limit, h_override_start, h_override_commit,
         h_last_keys, h_new_keys, h_reset, h_prev>>
\* the variables of a call made outside the page
calls == <<fn_args, fn_result>>
vars == <<app, calls>>

session == <<uploaded_files, selected_groups, selection_override, selection_version>>
\* the cached archive of the last generation
generation == <<zip_file, num_labels, generated>>
history == <<h_override_start, h_override_commit, h_last_keys, h_new_keys, h_reset,
             h_prev>>

---------------------------------------------------------------------------
(* Bounds and input universes *)

MaxRows == 2
MaxVersion == 2

FileNames == {"a.csv", "b.csv"}
Barcodes == {"b1", "b2", "b3"}
Groups == {"X", "Y"}
SearchTerms == {<<>>, <<"a">>}

\* the catalogue of rows a spreadsheet is made of: every product in either group
DescOf(barcode) == IF barcode = "b2" THEN <<"b">> ELSE <<"a">>
Product(barcode, group) ==
    [Code |-> <<"c">>, Desc |-> DescOf(barcode), Group |-> group, Barcode |-> barcode]
Row == {Product(b, g) : b \in Barcodes, g \in Groups}

\* sixteen records with a Barcode and a group of their own, the groups in
\* alphabetical order
WideProducts ==
    <<Product("w01", "Z01"), Product("w02", "Z02"),
      Product("w03", "Z03"), Product("w04", "Z04"),
      Product("w05", "Z05"), Product("w06", "Z06"),
      Product("w07", "Z07"), Product("w08", "Z08"),
      Product("w09", "Z09"), Product("w10", "Z10"),
      Product("w11", "Z11"), Product("w12", "Z12"),
      Product("w13", "Z13"), Product("w14", "Z14"),
      Product("w15", "Z15"), Product("w16", "Z16")>>
RowLists == UNION {[1..n -> Row] : n \in 0..MaxRows}

\* spreadsheets that fail the Barcode validation: an empty Barcode alone and
\* next to a record with a Barcode, a duplicated Barcode and a duplicated
\* empty Barcode
InvalidRowLists ==
    {<<Product("", "X")>>, <<Product("b1", "X"), Product("", "X")>>,
     <<Product("b1", "X"), Product("b1", "Y")>>,
     <<Product("", "X"), Product("", "Y")>>}

\* spreadsheets with unique Barcodes
ValidRowLists ==
    {rows \in RowLists :
        \A i, j \in DOMAIN rows : i # j => rows[i].Barcode # rows[j].Barcode}

\* df.columns of a spreadsheet of the required format, and of one without Barcode
Columns == {"Code", "Desc", "Group", "Barcode"}
NoBarcodeColumns == Columns \ {"Barcode"}

\* a spreadsheet without the column Barcode: its rows have no such field
NoBarcodeRowLists == {<<[Code |-> <<"c">>, Desc |-> <<"a">>, Group |-> "X"]>>}

NoFile == [present |-> FALSE, name |-> "", columns |-> {}, rows |-> <<>>]
Files ==
    [present : {TRUE}, name : FileNames, columns : {Columns},
     rows : ValidRowLists \cup InvalidRowLists]
    \cup [present : {TRUE}, name : FileNames, columns : {NoBarcodeColumns},
          rows : NoBarcodeRowLists]

\* the views a pass ends on, with the row positions or names listed in the view
View(view, listed) == [view |-> view, listed |-> listed]
Running == View("running", {})

EmptyMap == [k \in {} |-> TRUE]
\* no previous pass resolved the selection of the dataset in the uploader
NoPrev ==
    [ok |-> FALSE, resolved |-> <<>>, fp |-> <<>>, sg |-> <<>>, ov |-> EmptyMap, ver |-> 0]
\* an interaction: its kind, the group of a checkbox click and the new checkbox value;
\* a rerun pass names the button whose handler called st.rerun()
Event(kind, group, checked, after) ==
    [kind |-> kind, group |-> group, checked |-> checked, after |-> after]
NoEvent == Event("none", "", FALSE, "")
\* no call is in progress
NoCall == [fn |-> "none"]

---------------------------------------------------------------------------
(* Helpers over the DataFrame *)

\* df['Barcode'] values
BarcodesOf(rows) == {rows[i].Barcode : i \in DOMAIN rows}

\* df[df['Barcode'] == barcode].index[0]
FirstIndex(rows, barcode) ==
    CHOOSE i \in DOMAIN rows :
        /\ rows[i].Barcode = barcode
        /\ \A j \in DOMAIN rows : rows[j].Barcode = barcode => i <= j

\* Group of the first row carrying the barcode: product_rows.iloc[0]['Group']
GroupOf(rows, barcode) == rows[FirstIndex(rows, barcode)].Group

\* g in list
InList(list, g) == \E i \in DOMAIN list : list[i] = g

\* list.remove(g): removes the first occurrence
RemoveFirst(list, g) ==
    LET i == CHOOSE i \in DOMAIN list :
                 list[i] = g /\ \A j \in DOMAIN list : list[j] = g => i <= j
    IN  SubSeq(list, 1, i - 1) \o SubSeq(list, i + 1, Len(list))

\* Series.str.contains(term, case=False, na=False) on lower-case text
Contains(text, term) ==
    \E i \in 1..(Len(text) - Len(term) + 1) :
        SubSeq(text, i, i + Len(term) - 1) = term


---------------------------------------------------------------------------
(* Input validation, app.py:182-207 *)

\* mutant: duplicated() with its default keep='first' leaves the first occurrence out
duplicate_barcodes_KeepFirst(rows) ==
    {i \in DOMAIN rows : \E j \in DOMAIN rows : j < i /\ rows[j].Barcode = rows[i].Barcode}

\* df[df['Barcode'].duplicated(keep=False) & df['Barcode'].notna()]
duplicate_barcodes(rows) ==
    {i \in DOMAIN rows : \E j \in DOMAIN rows : j # i /\ rows[j].Barcode = rows[i].Barcode}

\* mutant: no row counts as a row without Barcode
empty_barcodes_None(rows) == {}

\* df[df['Barcode'].isna() | (df['Barcode'] == "")]
empty_barcodes(rows) == {i \in DOMAIN rows : rows[i].Barcode = ""}

\* DataFrame.head(n) of the rows at the positions in listed
head_limit == 20
head(listed, n) == {i \in listed : Cardinality({j \in listed : j < i}) < n}

\* mutant: a spreadsheet without the column Barcode passes on its Code values
PassesValidation_CodeFallback(f) ==
    /\ f.present
    /\ IF "Barcode" \in f.columns
       THEN duplicate_barcodes(f.rows) = {} /\ empty_barcodes(f.rows) = {}
       ELSE \A i, j \in DOMAIN f.rows :
               f.rows[i].Code # <<>> /\ (i # j => f.rows[i].Code # f.rows[j].Code)

\* the pass gets past every st.stop() of the validation
PassesValidation(f) ==
    /\ f.present
    /\ "Barcode" \in f.columns
    /\ duplicate_barcodes(f.rows) = {}
    /\ empty_barcodes(f.rows) = {}

\* the view a pass that fails the validation stops on: the first failing check
ValidationView(f) ==
    IF ~f.present THEN View("no_file", {})
    ELSE IF "Barcode" \notin f.columns THEN View("no_barcode_column", {})
    ELSE IF duplicate_barcodes(f.rows) # {}
         THEN View("duplicate_barcodes", duplicate_barcodes(f.rows))
    ELSE IF empty_barcodes(f.rows) # {}
         THEN View("empty_barcodes", head(empty_barcodes(f.rows), head_limit))
    ELSE Running

---------------------------------------------------------------------------
(* Fingerprint check and purge, app.py:222-255 *)

current_fingerprint(f) == <<f.name, Len(f.rows)>>

\* mutant: only the file name is compared
IsNewUpload_NameOnly(stored, f) == stored # <<>> /\ stored[1] # f.name

\* the new-upload test of line 230, after line 226-227 stored a first fingerprint
IsNewUpload(stored, f) == stored # <<>> /\ stored # current_fingerprint(f)

current_barcodes(rows) == BarcodesOf(rows)

\* mutant: no entry is purged
PurgeStale_Nothing(override, rows) == override

\* mutant: every entry is dropped on each pass
PurgeStale_All(override, rows) == [bc \in {} |-> TRUE]

\* selection_override after the stale entries are deleted
PurgeStale(override, rows) ==
    [bc \in {k \in DOMAIN override : k \in current_barcodes(rows)} |-> override[bc]]

---------------------------------------------------------------------------
(* Group checkboxes, app.py:258-345 *)

\* the alphabetical position of a group name
GroupRank(g) ==
    IF g = "X" THEN 1 ELSE IF g = "Y" THEN 2
    ELSE IF \E i \in DOMAIN WideProducts : WideProducts[i].Group = g
         THEN 3 + (CHOOSE i \in DOMAIN WideProducts : WideProducts[i].Group = g)
         ELSE 3

all_groups(rows) == {rows[i].Group : i \in DOMAIN rows}

group_counts(rows, g) == Cardinality({i \in DOMAIN rows : rows[i].Group = g})

\* sorted(sorted(groups), key=count, reverse=True): by count, ties alphabetical
sorted_groups(rows) ==
    LET firsts == SelectSeq([i \in DOMAIN rows |-> i],
                            LAMBDA i : \A j \in 1..(i - 1) : rows[j].Group # rows[i].Group)
        unique == [k \in DOMAIN firsts |-> rows[firsts[k]].Group]
    IN  SortSeq(unique,
                LAMBDA g, h :
                    \/ group_counts(rows, g) > group_counts(rows, h)
                    \/ /\ group_counts(rows, g) = group_counts(rows, h)
                       /\ GroupRank(g) < GroupRank(h))

groups_display_limit == 5

\* lines 285-286, no group search term: sorted_groups[:display_limit]
filtered_groups(rows) ==
    LET s == sorted_groups(rows)
    IN  SubSeq(s, 1, IF Len(s) < display_limit THEN Len(s) ELSE display_limit)

\* lines 287-288: groups are left beyond the display limit
show_more_button(rows) == Len(sorted_groups(rows)) - display_limit > 0

\* value returned by st.checkbox(key=group_<g>) in the running pass: the widget
\* shows the stored state (value=is_selected) unless the user clicked it
checkbox_value(e, g, is_selected) ==
    IF e.kind = "toggle" /\ e.group = g THEN e.checked ELSE is_selected

\* lines 304-309: selected_groups after the checkbox of group changed
ToggleSelectedGroups(sg, group, checked) ==
    IF checked
    THEN IF ~InList(sg, group) THEN Append(sg, group) ELSE sg
    ELSE IF InList(sg, group) THEN RemoveFirst(sg, group) ELSE sg

\* mutant: every override is cleared, whatever its group
ClearGroupOverrides_All(override, rows, group) == [bc \in {} |-> TRUE]

\* mutant: only the Barcodes of the displayed (searched) df are cleared
ClearGroupOverrides_Displayed(override, rows, group) ==
    LET shown == {i \in DOMAIN rows :
                    \/ desc_search = <<>>
                    \/ Contains(rows[i].Code, desc_search)
                    \/ Contains(rows[i].Desc, desc_search)}
        group_barcodes == {rows[i].Barcode : i \in {j \in shown : rows[j].Group = group}}
    IN  [bc \in DOMAIN override \ group_barcodes |-> override[bc]]

\* lines 313-316: delete the override of every Barcode of the group in df_full
ClearGroupOverrides(override, rows, group) ==
    LET group_barcodes == {rows[i].Barcode : i \in {j \in DOMAIN rows : rows[j].Group = group}}
    IN  [bc \in DOMAIN override \ group_barcodes |-> override[bc]]

\* the loop of lines 292-323 over filtered_groups, from position i on
\* the loop without the version step of line 318
RECURSIVE GroupLoop_SameVersion(_, _, _, _)
GroupLoop_SameVersion(i, rows, e, st) ==
    LET fg == filtered_groups(rows)
    IN  IF i > Len(fg) THEN st
        ELSE LET group == fg[i]
                 is_selected == InList(st.sg, group)
                 cv == checkbox_value(e, group, is_selected)
             IN  IF cv # is_selected
                 THEN GroupLoop_SameVersion(i + 1, rows, e,
                        [sg |-> ToggleSelectedGroups(st.sg, group, cv),
                         ov |-> ClearGroupOverrides(st.ov, rows, group),
                         ver |-> st.ver])
                 ELSE GroupLoop_SameVersion(i + 1, rows, e, st)

RECURSIVE GroupLoop(_, _, _, _)
GroupLoop(i, rows, e, st) ==
    LET fg == filtered_groups(rows)
    IN  IF i > Len(fg) THEN st
        ELSE LET group == fg[i]
                 is_selected == InList(st.sg, group)
                 cv == checkbox_value(e, group, is_selected)
             IN  IF cv # is_selected
                 THEN GroupLoop(i + 1, rows, e,
                        [sg |-> ToggleSelectedGroups(st.sg, group, cv),
                         ov |-> ClearGroupOverrides(st.ov, rows, group),
                         ver |-> st.ver + 1])
                 ELSE GroupLoop(i + 1, rows, e, st)

---------------------------------------------------------------------------
(* Baseline, search filter, displayed table, app.py:350-384 and 444-455 *)

\* df['Group'].isin(selected_groups), False everywhere for an empty list
base_selection(rows, sg) == [i \in DOMAIN rows |-> InList(sg, rows[i].Group)]

\* rows kept by the Code/Desc search (all rows for an empty search)
combined_mask(rows, term) ==
    {i \in DOMAIN rows :
        term = <<>> \/ Contains(rows[i].Code, term) \/ Contains(rows[i].Desc, term)}

\* positions in df_full of the rows of the displayed df, in display order
RECURSIVE KeptIndices(_, _, _)
KeptIndices(rows, term, i) ==
    IF i > Len(rows) THEN <<>>
    ELSE (IF i \in combined_mask(rows, term) THEN <<i>> ELSE <<>>)
            \o KeptIndices(rows, term, i + 1)

\* the displayed df (reset index)
DisplayRows(rows, term) ==
    LET idx == KeptIndices(rows, term, 1)
    IN  [p \in DOMAIN idx |-> rows[idx[p]]]

\* lines 446-452 and 504-509: write each override to the first row with its Barcode
ApplyOverrides(selected, rows, override) ==
    [i \in DOMAIN rows |->
        IF rows[i].Barcode \in DOMAIN override /\ i = FirstIndex(rows, rows[i].Barcode)
        THEN override[rows[i].Barcode]
        ELSE selected[i]]

\* column Selected of df_before_edit
DisplaySelected(rows, term, sg, override) ==
    LET df == DisplayRows(rows, term)
    IN  ApplyOverrides(base_selection(df, sg), df, override)

---------------------------------------------------------------------------
(* Bulk actions, app.py:394-424 *)

\* mutant: the bulk action ignores the search and writes every row of df_full
BulkSet_AllRows(override, rows, term, value) ==
    [bc \in DOMAIN override \cup BarcodesOf(rows) |->
        IF bc \in BarcodesOf(rows) THEN value ELSE override[bc]]

\* mutant: the bulk action stores no entry that equals the group baseline
BulkSet_Pruning(override, rows, term, value) ==
    LET shown == BarcodesOf(DisplayRows(rows, term))
        kept == {bc \in shown : InList(selected_groups, GroupOf(rows, bc)) # value}
    IN  [bc \in (DOMAIN override \ shown) \cup kept |->
            IF bc \in shown THEN value ELSE override[bc]]

\* override[barcode] = value for every Barcode of the displayed df
BulkSet(override, rows, term, value) ==
    LET shown == BarcodesOf(DisplayRows(rows, term))
    IN  [bc \in DOMAIN override \cup shown |->
            IF bc \in shown THEN value ELSE override[bc]]

---------------------------------------------------------------------------
(* Form submit, app.py:476-495 *)

\* before_dict / after_dict: Barcode -> Selected, a later row overwrites an earlier one
LookupDict(df, selected) ==
    [bc \in BarcodesOf(df) |->
        selected[CHOOSE i \in DOMAIN df :
                    /\ df[i].Barcode = bc
                    /\ \A j \in DOMAIN df : df[j].Barcode = bc => j <= i]]

\* mutant: every value of the submitted table counts as a manual selection
DiffByBarcode_All(before_dict, after_dict) == after_dict

\* manual_selections of a submit
DiffByBarcode(before_dict, after_dict) ==
    [bc \in {k \in DOMAIN after_dict :
                k \in DOMAIN before_dict /\ before_dict[k] # after_dict[k]}
        |-> after_dict[bc]]

---------------------------------------------------------------------------
(* Resolution and prune, app.py:497-536 *)

\* mutant: the manual selections are left out of the final selection
ApplyManual_Skip(selected, rows, manual) == selected

\* lines 512-517 on the column Selected of df_full_final
ApplyManual(selected, rows, manual) == ApplyOverrides(selected, rows, manual)

\* mutant: the stored overrides are written after the manual selections
ResolveSelected_OverrideLast(rows, sg, override, manual) ==
    ApplyOverrides(ApplyManual(base_selection(rows, sg), rows, manual), rows, override)

\* df_full_final['Selected'] after both loops
ResolveSelected(rows, sg, override, manual) ==
    ApplyManual(ApplyOverrides(base_selection(rows, sg), rows, override), rows, manual)

\* mutant: the manual selections are not written to selection_override
PersistManual_Skip(override, rows, manual) == override

\* line 519: persist the manual selections whose Barcode is a row of df_full
PersistManual(override, rows, manual) ==
    LET kept == {bc \in DOMAIN manual : bc \in BarcodesOf(rows)}
    IN  [bc \in DOMAIN override \cup kept |->
            IF bc \in kept THEN manual[bc] ELSE override[bc]]

\* lines 523-532
barcodes_to_remove(override, rows, sg) ==
    {bc \in DOMAIN override :
        /\ bc \in BarcodesOf(rows)
        /\ override[bc] = InList(sg, GroupOf(rows, bc))}

\* mutant: the prune is decided on the overrides as they were before the edits
PruneRedundant_BeforeEdits(override, rows, sg) ==
    [bc \in DOMAIN override \ barcodes_to_remove(h_override_commit, rows, sg) |-> override[bc]]

\* mutant: the group baseline of every override is read from the first row of df_full
PruneRedundant_FirstRow(override, rows, sg) ==
    [bc \in DOMAIN override \ {k \in DOMAIN override :
                                   /\ k \in BarcodesOf(rows)
                                   /\ override[k] = InList(sg, rows[1].Group)}
        |-> override[bc]]

\* mutant: the prune removes every entry
PruneRedundant_All(override, rows, sg) == EmptyMap

\* mutant: nothing is pruned
PruneRedundant_Nothing(override, rows, sg) == override

\* lines 535-536
PruneRedundant(override, rows, sg) ==
    [bc \in DOMAIN override \ barcodes_to_remove(override, rows, sg) |-> override[bc]]


---------------------------------------------------------------------------
(* The session before the first upload *)

PageInit ==
    /\ uploaded_file = NoFile
    /\ page = View("no_file", {})
    /\ template_xml = <<>>
    /\ zip_file = <<>>
    /\ num_labels = 0
    /\ generated = FALSE
    /\ edited_rows = {}
    /\ display_limit = groups_display_limit
    /\ desc_search = <<>>
    /\ uploaded_files = <<>>
    /\ selected_groups = <<>>
    /\ selection_override = EmptyMap
    /\ selection_version = 0
    /\ pc = "idle"
    /\ ev = NoEvent
    /\ manual_selections = EmptyMap
    /\ df_full_final = <<>>
    /\ h_override_start = EmptyMap
    /\ h_override_commit = EmptyMap
    /\ h_last_keys = {}
    /\ h_new_keys = {}
    /\ h_reset = FALSE
    /\ h_prev = NoPrev

Init ==
    /\ PageInit
    /\ fn_args = NoCall
    /\ fn_result = NoCall

\* the table, the group checkboxes and the buttons are on screen
TableShown == pc = "idle" /\ PassesValidation(uploaded_file)

\* a new run of the script from the top
StartPass(e) ==
    /\ pc' = "validate"
    /\ ev' = e
    /\ page' = Running
    /\ template_xml' = <<>>
    /\ manual_selections' = EmptyMap
    /\ df_full_final' = <<>>
    /\ h_override_start' = selection_override
    /\ h_override_commit' = EmptyMap
    /\ h_reset' = FALSE
    /\ UNCHANGED <<h_last_keys, h_new_keys>>

---------------------------------------------------------------------------
(* Interactions: each one changes a widget value and starts a pass *)

\* the user puts a file into the uploader (a new one or a reload), line 146
Upload ==
    /\ pc = "idle"
    /\ \E f \in Files : uploaded_file' = f
    /\ StartPass(Event("upload", "", FALSE, ""))
    /\ h_prev' = IF uploaded_file' = uploaded_file THEN h_prev ELSE NoPrev
    /\ UNCHANGED <<desc_search, session>>
    /\ UNCHANGED <<generation, edited_rows, display_limit, calls>>

\* the user removes the file from the uploader, line 152
RemoveFile ==
    /\ pc = "idle"
    /\ uploaded_file.present
    /\ uploaded_file' = NoFile
    /\ StartPass(Event("remove", "", FALSE, ""))
    /\ h_prev' = NoPrev
    /\ UNCHANGED <<desc_search, session>>
    /\ UNCHANGED <<generation, edited_rows, display_limit, calls>>

\* the user changes the product search box, line 368
Search ==
    /\ TableShown
    /\ \E t \in SearchTerms \ {desc_search} : desc_search' = t
    /\ StartPass(Event("search", "", FALSE, ""))
    /\ UNCHANGED <<uploaded_file, session, h_prev>>
    /\ UNCHANGED <<generation, edited_rows, display_limit, calls>>

\* the user clicks the checkbox of a displayed group, line 300
ClickGroup ==
    /\ TableShown
    /\ selection_version < MaxVersion
    /\ \E i \in DOMAIN filtered_groups(uploaded_file.rows) :
          LET g == filtered_groups(uploaded_file.rows)[i]
          IN  StartPass(Event("toggle", g, ~InList(selected_groups, g), ""))
    /\ UNCHANGED <<uploaded_file, desc_search, session, h_prev>>
    /\ UNCHANGED <<generation, edited_rows, display_limit, calls>>

\* the user clicks "Mostra altri (n)", line 330
ClickShowMore ==
    /\ TableShown
    /\ show_more_button(uploaded_file.rows)
    /\ StartPass(Event("show_more", "", FALSE, ""))
    /\ UNCHANGED <<uploaded_file, desc_search, session, h_prev>>
    /\ UNCHANGED <<generation, edited_rows, display_limit, calls>>

\* the user clicks "Mostra meno", line 336 or 341
ClickShowLess ==
    /\ TableShown
    /\ display_limit > groups_display_limit
    /\ StartPass(Event("show_less", "", FALSE, ""))
    /\ UNCHANGED <<uploaded_file, desc_search, session, h_prev>>
    /\ UNCHANGED <<generation, edited_rows, display_limit, calls>>

\* the user clicks "Seleziona tutto / visibili", line 395
ClickSelectAll ==
    /\ TableShown
    /\ selection_version < MaxVersion
    /\ StartPass(Event("select_all", "", FALSE, ""))
    /\ UNCHANGED <<uploaded_file, desc_search, session, h_prev>>
    /\ UNCHANGED <<generation, edited_rows, display_limit, calls>>

\* the user clicks "Deseleziona tutto / visibili", line 411
ClickClearAll ==
    /\ TableShown
    /\ selection_version < MaxVersion
    /\ StartPass(Event("clear_all", "", FALSE, ""))
    /\ UNCHANGED <<uploaded_file, desc_search, session, h_prev>>
    /\ UNCHANGED <<generation, edited_rows, display_limit, calls>>

\* the user clicks "Applica Selezioni", line 474
ClickSubmit ==
    /\ TableShown
    /\ selection_version < MaxVersion
    /\ StartPass(Event("submit", "", FALSE, ""))
    /\ UNCHANGED <<uploaded_file, desc_search, session, h_prev>>
    /\ UNCHANGED <<generation, edited_rows, display_limit, calls>>

---------------------------------------------------------------------------
(* The sections of a pass *)

\* lines 152-207: no file, duplicate or empty Barcodes stop the pass
Validate ==
    /\ pc = "validate"
    /\ pc' = IF PassesValidation(uploaded_file) THEN "fingerprint" ELSE "idle"
    /\ ev' = IF PassesValidation(uploaded_file) THEN ev ELSE NoEvent
    /\ h_override_start' = IF PassesValidation(uploaded_file) THEN h_override_start ELSE EmptyMap
    /\ h_prev' = IF PassesValidation(uploaded_file) THEN h_prev ELSE NoPrev
    /\ page' = ValidationView(uploaded_file)
    /\ UNCHANGED <<uploaded_file, desc_search, session, manual_selections, df_full_final,
                   h_override_commit, h_last_keys, h_new_keys, h_reset>>
    /\ UNCHANGED <<template_xml, generation, edited_rows, display_limit, calls>>

\* lines 222-247: new-upload detection and reset
FingerprintCheck ==
    /\ pc = "fingerprint"
    /\ IF IsNewUpload(uploaded_files, uploaded_file)
       THEN /\ selected_groups' = <<>>
            /\ selection_override' = EmptyMap
            /\ selection_version' = 0
            /\ display_limit' = groups_display_limit
            /\ h_reset' = TRUE
       ELSE /\ UNCHANGED <<selected_groups, selection_override, selection_version,
                           display_limit>>
            /\ h_reset' = FALSE
    /\ uploaded_files' = current_fingerprint(uploaded_file)
    /\ pc' = "purge"
    /\ UNCHANGED <<uploaded_file, desc_search, ev, manual_selections, df_full_final,
                   h_override_start, h_override_commit, h_last_keys, h_new_keys, h_prev>>
    /\ UNCHANGED <<page, template_xml, generation, edited_rows, calls>>

\* lines 249-255: purge of the stale overrides
Purge ==
    /\ pc = "purge"
    /\ selection_override' = PurgeStale(selection_override, uploaded_file.rows)
    /\ h_new_keys' = BarcodesOf(uploaded_file.rows) \ h_last_keys
    /\ h_last_keys' = BarcodesOf(uploaded_file.rows)
    /\ pc' = "groups"
    /\ UNCHANGED <<uploaded_file, desc_search, uploaded_files, selected_groups,
                   selection_version, ev, manual_selections, df_full_final,
                   h_override_start, h_override_commit, h_reset, h_prev>>
    /\ UNCHANGED <<page, template_xml, generation, edited_rows, display_limit, calls>>

\* lines 258-345: the group checkboxes, then the buttons "Mostra altri" and
\* "Mostra meno", whose click ends in st.rerun()
GroupCheckboxes ==
    /\ pc = "groups"
    /\ LET st == GroupLoop(1, uploaded_file.rows, ev,
                           [sg |-> selected_groups, ov |-> selection_override,
                            ver |-> selection_version])
       IN  /\ selected_groups' = st.sg
           /\ selection_override' = st.ov
           /\ selection_version' = st.ver
           /\ edited_rows' = edited_rows \ (selection_version..(st.ver - 1))
    /\ IF ev.kind = "show_more" /\ show_more_button(uploaded_file.rows)
       THEN /\ display_limit' = display_limit + 10
            /\ pc' = "validate"
            /\ ev' = Event("rerun", "", FALSE, ev.kind)
            /\ h_override_start' = selection_override'
       ELSE IF ev.kind = "show_less" /\ display_limit > groups_display_limit
       THEN /\ display_limit' = groups_display_limit
            /\ pc' = "validate"
            /\ ev' = Event("rerun", "", FALSE, ev.kind)
            /\ h_override_start' = selection_override'
       ELSE /\ pc' = "bulk"
            /\ UNCHANGED <<display_limit, ev, h_override_start>>
    /\ UNCHANGED <<uploaded_file, desc_search, uploaded_files, manual_selections,
                   df_full_final, h_override_commit, h_last_keys, h_new_keys, h_reset,
                   h_prev>>
    /\ UNCHANGED <<page, template_xml, generation, calls>>

\* lines 386-424: the two bulk buttons; a click ends in st.rerun()
BulkButtons ==
    /\ pc = "bulk"
    /\ IF ev.kind \in {"select_all", "clear_all"}
       THEN /\ selection_override' = BulkSet(selection_override, uploaded_file.rows,
                                             desc_search, ev.kind = "select_all")
            /\ selection_version' = selection_version + 1
            /\ edited_rows' = edited_rows \ {selection_version}
            /\ pc' = "validate"
            /\ ev' = Event("rerun", "", FALSE, ev.kind)
            /\ h_override_start' = selection_override'
            /\ h_prev' = [NoPrev EXCEPT !.resolved = h_prev.resolved]
       ELSE /\ pc' = "form"
            /\ UNCHANGED <<selection_override, selection_version, edited_rows, ev,
                           h_override_start, h_prev>>
    /\ UNCHANGED <<uploaded_file, desc_search, uploaded_files, selected_groups,
                   manual_selections, df_full_final, h_override_commit, h_last_keys,
                   h_new_keys, h_reset>>
    /\ UNCHANGED <<page, template_xml, generation, display_limit, calls>>

\* lines 444-495: the table form; on submit the edited column is diffed by Barcode
FormSubmit ==
    /\ pc = "form"
    /\ LET df == DisplayRows(uploaded_file.rows, desc_search)
           before == DisplaySelected(uploaded_file.rows, desc_search,
                                     selected_groups, selection_override)
       IN  IF ev.kind = "submit"
           THEN \E edited \in [DOMAIN df -> BOOLEAN] :
                   manual_selections' =
                       DiffByBarcode(LookupDict(df, before), LookupDict(df, edited))
           ELSE manual_selections' = EmptyMap
    /\ h_override_commit' = selection_override
    /\ pc' = "resolve"
    /\ UNCHANGED <<uploaded_file, desc_search, session, ev, df_full_final,
                   h_override_start, h_last_keys, h_new_keys, h_reset, h_prev>>
    /\ UNCHANGED <<page, template_xml, generation, edited_rows, display_limit, calls>>

\* lines 497-519: final selection of the full dataset, manual selections persisted
Resolve ==
    /\ pc = "resolve"
    /\ df_full_final' = ResolveSelected(uploaded_file.rows, selected_groups,
                                        selection_override, manual_selections)
    /\ selection_override' = PersistManual(selection_override, uploaded_file.rows,
                                           manual_selections)
    /\ pc' = "prune"
    /\ UNCHANGED <<uploaded_file, desc_search, uploaded_files, selected_groups,
                   selection_version, ev, manual_selections, history>>
    /\ UNCHANGED <<page, template_xml, generation, edited_rows, display_limit, calls>>

\* lines 521-536: prune of the redundant overrides
Prune ==
    /\ pc = "prune"
    /\ selection_override' = PruneRedundant(selection_override, uploaded_file.rows,
                                            selected_groups)
    /\ pc' = "finish"
    /\ UNCHANGED <<uploaded_file, desc_search, uploaded_files, selected_groups,
                   selection_version, ev, manual_selections, df_full_final, history>>
    /\ UNCHANGED <<page, template_xml, generation, edited_rows, display_limit, calls>>

\* lines 538-546: manual selections end the pass in st.rerun()
RerunAfterSubmit ==
    /\ pc = "finish"
    /\ manual_selections # EmptyMap
    /\ selection_version' = selection_version + 1
    /\ edited_rows' = edited_rows \ {selection_version}
    /\ pc' = "validate"
    /\ ev' = Event("rerun", "", FALSE, "submit")
    /\ manual_selections' = EmptyMap
    /\ df_full_final' = <<>>
    /\ h_override_start' = selection_override
    /\ h_override_commit' = EmptyMap
    /\ h_prev' = [ok |-> TRUE, resolved |-> df_full_final, fp |-> uploaded_files,
                  sg |-> selected_groups,
                  ov |-> selection_override, ver |-> selection_version']
    /\ UNCHANGED <<uploaded_file, desc_search, uploaded_files, selected_groups,
                   selection_override, h_last_keys, h_new_keys, h_reset>>
    /\ UNCHANGED <<page, template_xml, generation, display_limit, calls>>

\* lines 548-675: the rest of the page is rendered and the app waits
Render ==
    /\ pc = "finish"
    /\ manual_selections = EmptyMap
    /\ pc' = "idle"
    /\ ev' = NoEvent
    /\ df_full_final' = <<>>
    /\ h_override_start' = EmptyMap
    /\ h_override_commit' = EmptyMap
    /\ h_reset' = FALSE
    /\ h_new_keys' = {}
    /\ page' = View("table", {})
    /\ h_prev' = [ok |-> TRUE, resolved |-> df_full_final, fp |-> uploaded_files,
                  sg |-> selected_groups,
                  ov |-> selection_override, ver |-> selection_version]
    /\ UNCHANGED <<uploaded_file, desc_search, session, manual_selections,
                   h_last_keys>>
    /\ UNCHANGED <<template_xml, generation, edited_rows, display_limit, calls>>

Next ==
    \/ Upload
    \/ RemoveFile
    \/ Search
    \/ ClickGroup
    \/ ClickSelectAll
    \/ ClickClearAll
    \/ ClickSubmit
    \/ Validate
    \/ FingerprintCheck
    \/ Purge
    \/ GroupCheckboxes
    \/ BulkButtons
    \/ FormSubmit
    \/ Resolve
    \/ Prune
    \/ RerunAfterSubmit
    \/ Render

Spec == Init /\ [][Next]_vars

TypeOK ==
    /\ pc \in {"idle", "validate", "fingerprint", "purge", "groups", "bulk", "form",
               "resolve", "prune", "finish", "validation", "generate", "download"}
    /\ selection_version \in 0..(MaxVersion + 1)
    /\ edited_rows \subseteq 0..(MaxVersion + 1)
    /\ display_limit \in {groups_display_limit + 10 * n : n \in 0..2}
    /\ DOMAIN selection_override \subseteq
          Barcodes \cup {WideProducts[i].Barcode : i \in DOMAIN WideProducts}
    /\ pc = "idle" => ev = NoEvent
    /\ \A i \in DOMAIN selected_groups :
          selected_groups[i] \in
              Groups \cup {WideProducts[j].Group : j \in DOMAIN WideProducts}


---------------------------------------------------------------------------
(* Resolution and prune of one dataset in two row orders, app.py:497-536 *)

\* the values st.session_state['selected_groups'] takes: a group is appended
\* only when it is not in the list (line 304)
SelectedGroupLists ==
    {sg \in UNION {[1..n -> Groups] : n \in 0..Cardinality(Groups)} :
        \A i, j \in DOMAIN sg : i # j => sg[i] # sg[j]}

\* the override mappings left by the purge of a dataset
OverridesOf(rows) == UNION {[S -> BOOLEAN] : S \in SUBSET BarcodesOf(rows)}

\* the orders the rows of a spreadsheet can come in
Orders(n) == {p \in [1..n -> 1..n] : \A i, j \in 1..n : i # j => p[i] # p[j]}
Reorder(rows, p) == [i \in DOMAIN rows |-> rows[p[i]]]

\* lines 497-536 of a pass without manual selections: the resolved selection
\* by Barcode and the override mapping after the prune
Reconcile(rows, sg, override) ==
    [resolved |-> LookupDict(rows, ResolveSelected(rows, sg, override, EmptyMap)),
     override |-> PruneRedundant(PersistManual(override, rows, EmptyMap), rows, sg)]

InitReconcile ==
    /\ PageInit
    /\ \E r \in ValidRowLists, g \in SelectedGroupLists :
          \E p \in Orders(Len(r)), o \in OverridesOf(r) :
             fn_args = [fn |-> "reconcile", rows |-> r, reordered |-> Reorder(r, p),
                        sg |-> g, override |-> o]
    /\ fn_result = NoCall

\* both row orders are resolved and pruned
CallReconcile ==
    /\ fn_args.fn = "reconcile"
    /\ fn_result = NoCall
    /\ fn_result' = [fn |-> "reconcile",
                     first |-> Reconcile(fn_args.rows, fn_args.sg, fn_args.override),
                     second |-> Reconcile(fn_args.reordered, fn_args.sg, fn_args.override)]
    /\ UNCHANGED <<app, fn_args>>

SpecReconcile == InitReconcile /\ [][CallReconcile]_vars

---------------------------------------------------------------------------
(* One submit of the table form, app.py:444-536 *)

\* the dataset of three records in the groups X, X and Y; the search hides
\* its first record
ScenarioRows == <<Product("b2", "X"), Product("b1", "X"), Product("b3", "Y")>>

\* mutant: the two frames are compared row by row, and a change is booked
\* under the Barcode of the row of df_before_edit at that position
SubmitDiff_ByPosition(df_before_edit, before, edited_df, after) ==
    [bc \in {df_before_edit[i].Barcode :
                i \in {j \in DOMAIN df_before_edit : before[j] # after[j]}}
        |-> after[FirstIndex(df_before_edit, bc)]]

\* lines 476-495: before_dict and after_dict by Barcode, and their difference
SubmitDiff(df_before_edit, before, edited_df, after) ==
    DiffByBarcode(LookupDict(df_before_edit, before), LookupDict(edited_df, after))

\* lines 444-536 of a pass with a submit: the displayed frame with its
\* Selected column, the frame the editor returns (its rows in the order
\* order, the column edited), the diff, the resolution and the override
\* after persist and prune
SubmitForm(rows, term, sg, override, edited, order) ==
    LET df == DisplayRows(rows, term)
        before == DisplaySelected(rows, term, sg, override)
        manual == SubmitDiff(df, before, Reorder(df, order), Reorder(edited, order))
    IN  [manual |-> manual,
         resolved |-> ResolveSelected(rows, sg, override, manual),
         override |-> PruneRedundant(PersistManual(override, rows, manual), rows, sg)]

InitSubmit ==
    /\ PageInit
    /\ \E r \in ValidRowLists \cup {ScenarioRows}, t \in SearchTerms,
          g \in SelectedGroupLists :
          \E o \in OverridesOf(r), e \in [DOMAIN DisplayRows(r, t) -> BOOLEAN],
             p \in Orders(Len(DisplayRows(r, t))) :
             fn_args = [fn |-> "submit", rows |-> r, term |-> t, sg |-> g,
                        override |-> o, edited |-> e, order |-> p]
    /\ fn_result = NoCall

\* the submit is processed
CallSubmit ==
    /\ fn_args.fn = "submit"
    /\ fn_result = NoCall
    /\ fn_result' = [fn |-> "submit",
                     value |-> SubmitForm(fn_args.rows, fn_args.term, fn_args.sg,
                                          fn_args.override, fn_args.edited, fn_args.order)]
    /\ UNCHANGED <<app, fn_args>>

SpecSubmit == InitSubmit /\ [][CallSubmit]_vars

---------------------------------------------------------------------------
(* Template validation, utils.py:37-47 and 164-201 *)

\* A template is a sequence of chunks of text.  A chunk is a placeholder
\* <<"{{", w, "}}">>, a word outside braces, an unclosed "{{" w, or "<" for
\* any other text; only the first matches PLACEHOLDER_RX.
MaxTemplateLen == 3
Words == {"Barcode", "Code", "Desc", "Missing"}
Placeholder(w) == <<"{{", w, "}}">>
Chunks == {Placeholder(w) : w \in Words} \cup {<<"<">>, <<"Code">>, <<"{{", "Code">>}
Templates == UNION {[1..n -> Chunks] : n \in 0..MaxTemplateLen}

\* the chunk matches \{\{(\w+)\}\}
IsPlaceholder(chunk) ==
    Len(chunk) = 3 /\ chunk[1] = "{{" /\ chunk[2] \in Words /\ chunk[3] = "}}"

\* set(PLACEHOLDER_RX.findall(xml_content)): the words of the matches
extract_placeholders(xml_content) ==
    {xml_content[i][2] : i \in {j \in DOMAIN xml_content : IsPlaceholder(xml_content[j])}}

\* the order sorted() puts the words in
WordOrder == <<"Barcode", "Code", "Desc", "Group", "Missing">>
WordRank(w) == CHOOSE i \in DOMAIN WordOrder : WordOrder[i] = w

\* sorted(names) of a set of words
RECURSIVE sorted(_)
sorted(names) ==
    IF names = {} THEN <<>>
    ELSE LET least == CHOOSE w \in names : \A v \in names : WordRank(w) <= WordRank(v)
         IN  <<least>> \o sorted(names \ {least})

\* data_rows of a call: the rows of one DataFrame, all with the same columns
DataColumnSets == {{"Code"}, {"Code", "Desc"}}
DataRowLists ==
    UNION {{[i \in 1..n |-> [c \in cols |-> <<"v">>]] : n \in 0..MaxRows}
           : cols \in DataColumnSets}

\* mutant: an empty row list is treated as rows without columns
validate_data_NoEmptyCase(template, data_rows) ==
    LET placeholders == extract_placeholders(template)
        columns == IF data_rows = <<>> THEN {} ELSE DOMAIN data_rows[1]
    IN  [placeholders |-> placeholders,
         columns |-> columns,
         missing |-> sorted({w \in placeholders : w \notin columns}),
         unused |-> sorted({c \in columns : c \notin placeholders}),
         is_valid |-> {w \in placeholders : w \notin columns} = {}]

validate_data(template, data_rows) ==
    LET placeholders == extract_placeholders(template)
    IN  IF data_rows = <<>>
        THEN [placeholders |-> placeholders,
              columns |-> {},
              missing |-> sorted(placeholders),
              unused |-> <<>>,
              is_valid |-> FALSE]
        ELSE LET columns == DOMAIN data_rows[1]
                 missing == sorted({w \in placeholders : w \notin columns})
             IN  [placeholders |-> placeholders,
                  columns |-> columns,
                  missing |-> missing,
                  unused |-> sorted({c \in columns : c \notin placeholders}),
                  is_valid |-> Len(missing) = 0]

InitValidate ==
    /\ PageInit
    /\ \E t \in Templates, d \in DataRowLists :
          fn_args = [fn |-> "validate_data", template_xml |-> t, data_rows |-> d]
    /\ fn_result = NoCall

CallValidateData ==
    /\ fn_args.fn = "validate_data"
    /\ fn_result = NoCall
    /\ fn_result' = [fn |-> "validate_data",
                     value |-> validate_data(fn_args.template_xml, fn_args.data_rows)]
    /\ UNCHANGED <<app, fn_args>>

SpecValidate == InitValidate /\ [][CallValidateData]_vars

---------------------------------------------------------------------------
(* Join of the product file with the EAN file, utils.py:100-161 *)

\* the values of the join key Code and of the column Barcode; an empty cell
\* is "" after read_excel_data
JoinCodes == {<<"c">>, <<"d">>}
JoinBarcodes == {"", "b1"}

\* ean_df has the columns Code and Barcode; product_df has Code and, in
\* the frames that already carry one, a column Barcode of its own
EanRow == [Code : JoinCodes, Barcode : JoinBarcodes]
ProductFrames ==
    UNION {[1..n -> [Code : JoinCodes]] \cup [1..n -> EanRow] : n \in 0..MaxRows}
EanFrames == UNION {[1..n -> EanRow] : n \in 0..MaxRows}

\* drop_duplicates(subset=[join_key], keep='first'): the Barcode of the first
\* row of ean_df with the Code
ean_mapping(ean_df, code) ==
    ean_df[CHOOSE j \in DOMAIN ean_df :
              /\ ean_df[j].Code = code
              /\ \A k \in DOMAIN ean_df : ean_df[k].Code = code => j <= k].Barcode

\* column Barcode of merged_df: the value of the EAN file where the Code
\* joins, else the product's own Barcode (Barcode_y.fillna(Barcode_x)), else ""
merged_barcode(row, ean_df) ==
    IF \E j \in DOMAIN ean_df : ean_df[j].Code = row.Code
    THEN ean_mapping(ean_df, row.Code)
    ELSE IF "Barcode" \in DOMAIN row THEN row.Barcode ELSE ""

merge_product_ean_data(product_df, ean_df) ==
    LET merged_df == [i \in DOMAIN product_df |->
                         [Code |-> product_df[i].Code,
                          Barcode |-> merged_barcode(product_df[i], ean_df)]]
        total_products == Len(merged_df)
        matched_products == Cardinality({i \in DOMAIN merged_df : merged_df[i].Barcode # ""})
    IN  [merged_df |-> merged_df,
         statistics |-> [total |-> total_products,
                         matched |-> matched_products,
                         unmatched |-> total_products - matched_products]]

InitMerge ==
    /\ PageInit
    /\ \E p \in ProductFrames, e \in EanFrames :
          fn_args = [fn |-> "merge_product_ean_data", product_df |-> p, ean_df |-> e]
    /\ fn_result = NoCall

CallMerge ==
    /\ fn_args.fn = "merge_product_ean_data"
    /\ fn_result = NoCall
    /\ fn_result' = [fn |-> "merge_product_ean_data",
                     value |-> merge_product_ean_data(fn_args.product_df, fn_args.ean_df)]
    /\ UNCHANGED <<app, fn_args>>

SpecMerge == InitMerge /\ [][CallMerge]_vars

---------------------------------------------------------------------------
(* Label generation and the ZIP archive, utils.py:204-308 *)

\* Text is a sequence of one-character strings.
dymo_suffix == <<".", "d", "y", "m", "o">>

\* DEFAULT_FILENAME_PATTERN "{Code}_{Color}_{Size}.dymo": replacement fields
\* and literal text
FieldPart(name) == [field |-> name, text |-> <<>>]
TextPart(text) == [field |-> "", text |-> text]
DEFAULT_FILENAME_PATTERN ==
    <<FieldPart("Code"), TextPart(<<"_">>), FieldPart("Color"), TextPart(<<"_">>),
      FieldPart("Size"), TextPart(dymo_suffix)>>

\* the rows of a selection: unique Barcodes, Code values that differ only in
\* characters a file name cannot hold
LabelCodes == {<<"c">>, <<"c", "/">>, <<"c", "&">>}
LabelRow ==
    [Code : LabelCodes, Color : {<<"r">>}, Size : {<<"s">>}, Barcode : {<<"1">>, <<"2">>, <<"3">>}]
LabelRowLists ==
    {d \in UNION {[1..n -> LabelRow] : n \in 0..MaxRows} :
        \A i, j \in DOMAIN d : i # j => d[i].Barcode # d[j].Barcode}
LabelTemplates ==
    {<<Placeholder("Code")>>, <<Placeholder("Code"), <<"<">>, Placeholder("Barcode")>>}

\* xml.sax.saxutils.escape: & < > become entities
xml_escape(text) ==
    [i \in DOMAIN text |->
        IF text[i] = "&" THEN "&amp;"
        ELSE IF text[i] = "<" THEN "&lt;"
        ELSE IF text[i] = ">" THEN "&gt;" ELSE text[i]]

\* every placeholder of a key of data is replaced by the escaped value
fill_template(template, data) ==
    [i \in DOMAIN template |->
        IF IsPlaceholder(template[i]) /\ template[i][2] \in DOMAIN data
        THEN xml_escape(data[template[i][2]])
        ELSE template[i]]

\* characters of \w, and the characters [^\w\-. ] leaves alone
WordChars == {"c", "d", "y", "m", "o", "r", "s", "l", "a", "b", "e", "_",
              "0", "1", "2", "3", "4", "5", "6", "7", "8", "9"}
KeptChars == WordChars \cup {"-", ".", " "}

\* str.strip() of spaces
strip(text) ==
    IF \A i \in DOMAIN text : text[i] = " " THEN <<>>
    ELSE LET first == CHOOSE i \in DOMAIN text :
                         text[i] # " " /\ \A j \in 1..(i - 1) : text[j] = " "
             last == CHOOSE i \in DOMAIN text :
                        text[i] # " " /\ \A j \in (i + 1)..Len(text) : text[j] = " "
         IN  SubSeq(text, first, last)

\* a character re.sub(r"[^\w\-. ]+", "-", s) replaces, once / \ : were
\* replaced by "-"
Replaced(ch) == ch \notin KeptChars \cup {"/", "\\", ":"}

\* re.sub(r"[^\w\-. ]+", "-", s) after / \ : were replaced by "-", then
\* re.sub(r"\s+", "_", s): one replacement for every run, so that only the
\* first character of a run leaves something
sub_runs(text) ==
    SelectSeq([i \in DOMAIN text |->
                  IF text[i] \in {"/", "\\", ":"} THEN "-"
                  ELSE IF Replaced(text[i])
                  THEN (IF i > 1 /\ Replaced(text[i - 1]) THEN "" ELSE "-")
                  ELSE IF text[i] = " "
                  THEN (IF i > 1 /\ text[i - 1] = " " THEN "" ELSE "_")
                  ELSE text[i]],
              LAMBDA ch : ch # "")

max_filename == 180
sanitize_filename(filename) ==
    LET s == sub_runs(strip(filename))
        cut == SubSeq(s, 1, IF Len(s) < max_filename THEN Len(s) ELSE max_filename)
    IN  IF cut = <<>> THEN <<"l", "a", "b", "e", "l">> ELSE cut

\* str(row_index) for the row indexes of the model
Digits(n) == <<ToString(n)>>

\* the exception pattern.format(**safe_data) raises at one part: ValueError
\* for a field that does not parse (FieldPart("{"), a single brace),
\* IndexError for a positional field (FieldPart("0"): format is given no
\* positional argument), KeyError for a name that is no key of the row and
\* is not "i"
part_exception(part, row_data) ==
    IF part.field = "" THEN "none"
    ELSE IF part.field = "{" THEN "ValueError"
    ELSE IF part.field = "0" THEN "IndexError"
    ELSE IF part.field \notin DOMAIN row_data \cup {"i"} THEN "KeyError"
    ELSE "none"

\* str.format works from left to right: the first failing part raises
format_exception(pattern, row_data) ==
    IF \E i \in DOMAIN pattern : part_exception(pattern[i], row_data) # "none"
    THEN LET first == CHOOSE i \in DOMAIN pattern :
                         /\ part_exception(pattern[i], row_data) # "none"
                         /\ \A j \in 1..(i - 1) : part_exception(pattern[j], row_data) = "none"
         IN  part_exception(pattern[first], row_data)
    ELSE "none"

\* pattern.format(**safe_data) when nothing is raised
RECURSIVE format(_, _, _)
format(pattern, row_data, row_index) ==
    IF pattern = <<>> THEN <<>>
    ELSE LET part == pattern[1]
         IN  (IF part.field = "" THEN part.text
              ELSE IF part.field \in DOMAIN row_data THEN row_data[part.field]
              ELSE Digits(row_index))
             \o format(Tail(pattern), row_data, row_index)

\* what a call leaves: the value it returns, or the exception that leaves it
Outcome(exception, name) == [raised |-> exception, name |-> name]

\* only KeyError is caught: the name falls back to label_<row_index>.dymo
build_filename(pattern, row_data, row_index) ==
    LET exception == format_exception(pattern, row_data)
    IN  IF exception = "KeyError"
        THEN Outcome("none", sanitize_filename(<<"l", "a", "b", "e", "l", "_">>
                                        \o Digits(row_index) \o dymo_suffix))
        ELSE IF exception # "none" THEN Outcome(exception, <<>>)
        ELSE Outcome("none", sanitize_filename(format(pattern, row_data, row_index)))

\* generate_labels with limit=None: one (filename, xml) pair per row
generate_labels(template, data_rows, filename_pattern) ==
    [idx \in DOMAIN data_rows |->
        [filename |-> build_filename(filename_pattern, data_rows[idx], idx).name,
         content |-> fill_template(template, data_rows[idx])]]

\* mutant: the archive holds the first label only
create_zip_archive_First(labels) == SubSeq(labels, 1, 1)

\* zipfile.ZipFile.writestr for every label: the entries in the order written
create_zip_archive(labels) == labels

\* ZipFile.namelist() and ZipFile.read(name): read returns the entry that
\* was written last under the name
namelist(zip_file_) == [i \in DOMAIN zip_file_ |-> zip_file_[i].filename]
read(zip_file_, name) ==
    zip_file_[CHOOSE i \in DOMAIN zip_file_ :
                 /\ zip_file_[i].filename = name
                 /\ \A j \in DOMAIN zip_file_ : zip_file_[j].filename = name => j <= i].content

InitLabels ==
    /\ PageInit
    /\ \E t \in LabelTemplates, d \in LabelRowLists :
          fn_args = [fn |-> "generate_labels", template_xml |-> t, data_rows |-> d]
    /\ fn_result = NoCall

\* app.py:621-629: the labels of the selected rows and their archive
CallGenerateLabels ==
    /\ fn_args.fn = "generate_labels"
    /\ fn_result = NoCall
    /\ LET labels == generate_labels(fn_args.template_xml, fn_args.data_rows,
                                     DEFAULT_FILENAME_PATTERN)
       IN  fn_result' = [fn |-> "generate_labels", labels |-> labels,
                         zip_buffer |-> create_zip_archive(labels)]
    /\ UNCHANGED <<app, fn_args>>

SpecLabels == InitLabels /\ [][CallGenerateLabels]_vars

\* file-name patterns of at most MaxParts parts: fields of the row, the
\* ordinal {i}, a field the row lacks, fields format cannot take, and text
\* with separators, spaces and more characters than a name may keep
MaxParts == 2
PatternParts ==
    {FieldPart("Code"), FieldPart("i"), FieldPart("Missing"), FieldPart("{"), FieldPart("0"),
     TextPart(dymo_suffix), TextPart(<<"/", "\\", ":">>), TextPart(<<" ">>),
     TextPart([i \in 1..(max_filename + 1) |-> "a"])}

InitFilename ==
    /\ PageInit
    /\ \E n \in 0..MaxParts :
          \E pattern \in [1..n -> PatternParts], d \in LabelRow, idx \in 1..MaxRows :
             fn_args = [fn |-> "build_filename", pattern |-> pattern, row_data |-> d,
                        row_index |-> idx]
    /\ fn_result = NoCall

\* one call of build_filename, as in utils.py:283 and generate_dymo_files.py:108
CallBuildFilename ==
    /\ fn_args.fn = "build_filename"
    /\ fn_result = NoCall
    /\ fn_result' = [fn |-> "build_filename",
                     value |-> build_filename(fn_args.pattern, fn_args.row_data,
                                              fn_args.row_index)]
    /\ UNCHANGED <<app, fn_args>>

SpecFilename == InitFilename /\ [][CallBuildFilename]_vars

---------------------------------------------------------------------------
(* The batch CLI, generate_dymo_files.py:56-112 *)

\* --limit: 0 stands for an absent or zero limit (both falsy), a negative
\* limit cuts rows from the end
Limits == (-1)..MaxRows
Suffixes == {".csv", ".txt"}

\* rows[:limit]
slice_to(rows_, limit) ==
    IF limit >= 0
    THEN SubSeq(rows_, 1, IF limit < Len(rows_) THEN limit ELSE Len(rows_))
    ELSE SubSeq(rows_, 1, IF Len(rows_) + limit > 0 THEN Len(rows_) + limit ELSE 0)

\* what a run leaves: the exit status, whether --out was created, the
\* files in it (name -> text) and the examples printed by --dry-run
CliExit(status) ==
    [exit_status |-> status, out_created |-> FALSE, files |-> EmptyMap, preview |-> <<>>]

\* the loop of lines 105-110: a later file overwrites one of the same name
RECURSIVE write_files(_, _, _, _)
write_files(template, rows_, pattern, n) ==
    IF n = 0 THEN EmptyMap
    ELSE LET before == write_files(template, rows_, pattern, n - 1)
             fname == build_filename(pattern, rows_[n], n).name
         IN  [f \in DOMAIN before \cup {fname} |->
                 IF f = fname THEN fill_template(template, rows_[n]) ELSE before[f]]

\* lines 91-101: the example of the first row, its file name and its label
dry_run_example(template, rows_, pattern) ==
    <<[filename |-> build_filename(pattern, rows_[1], 1).name,
       content |-> fill_template(template, rows_[1])]>>

\* mutant: --out is created before the --dry-run exit
cli_main_DryRunMkdir(args) ==
    IF ~args.template_exists THEN CliExit(1)
    ELSE IF ~args.data_exists THEN CliExit(1)
    ELSE IF args.suffix \notin {".xlsx", ".xls", ".csv"} THEN CliExit(1)
    ELSE LET limited == IF args.limit # 0 THEN slice_to(args.rows, args.limit) ELSE args.rows
         IN  IF limited = <<>> THEN CliExit(0)
             ELSE IF build_filename(args.name, limited[1], 1).raised # "none"
             THEN [CliExit(1) EXCEPT !.out_created = TRUE]
             ELSE IF args.dry_run
             THEN [CliExit(0) EXCEPT
                      !.out_created = TRUE,
                      !.preview = dry_run_example(args.template_xml, limited, args.name)]
             ELSE [CliExit(0) EXCEPT
                      !.out_created = TRUE,
                      !.files = write_files(args.template_xml, limited, args.name,
                                            Len(limited))]

\* main(): sys.exit(<message>) is exit status 1, and so is the traceback of
\* an exception that build_filename lets through (the rows of a file have
\* the same keys, so a pattern that raises does so for the first row)
cli_main(args) ==
    IF ~args.template_exists THEN CliExit(1)
    ELSE IF ~args.data_exists THEN CliExit(1)
    ELSE IF args.suffix \notin {".xlsx", ".xls", ".csv"} THEN CliExit(1)
    ELSE LET limited == IF args.limit # 0 THEN slice_to(args.rows, args.limit) ELSE args.rows
         IN  IF limited = <<>> THEN CliExit(0)
             ELSE IF args.dry_run
             THEN (IF build_filename(args.name, limited[1], 1).raised # "none"
                   THEN CliExit(1)
                   ELSE [CliExit(0) EXCEPT
                            !.preview = dry_run_example(args.template_xml, limited,
                                                        args.name)])
             ELSE IF build_filename(args.name, limited[1], 1).raised # "none"
             THEN [CliExit(1) EXCEPT !.out_created = TRUE]
             ELSE [CliExit(0) EXCEPT
                      !.out_created = TRUE,
                      !.files = write_files(args.template_xml, limited, args.name,
                                            Len(limited))]

InitCli ==
    /\ PageInit
    /\ \E t \in LabelTemplates, d \in DataRowLists, l \in Limits, x \in Suffixes :
          \E te, de, dr \in BOOLEAN, nm \in {DEFAULT_FILENAME_PATTERN, <<FieldPart("{")>>} :
             fn_args = [fn |-> "main", template_exists |-> te, template_xml |-> t,
                        data_exists |-> de, suffix |-> x, rows |-> d, limit |-> l,
                        name |-> nm, dry_run |-> dr]
    /\ fn_result = NoCall

\* one run of the command
CallMain ==
    /\ fn_args.fn = "main"
    /\ fn_result = NoCall
    /\ fn_result' = [fn |-> "main", value |-> cli_main(fn_args)]
    /\ UNCHANGED <<app, fn_args>>

SpecCli == InitCli /\ [][CallMain]_vars

---------------------------------------------------------------------------
(* The page with its validation and generation sections, app.py:548-661 *)

\* the spreadsheets and the templates of the sessions that generate labels;
\* template_update.dymo is read anew in every pass
SampleRowLists == {<<Product("b1", "X")>>, <<Product("b1", "X"), Product("b2", "Y")>>}
SampleFiles ==
    [present : {TRUE}, name : FileNames, columns : {Columns}, rows : SampleRowLists]
SampleTemplates ==
    {<<Placeholder("Code")>>, <<Placeholder("Code"), Placeholder("Missing")>>}

\* mutant: every row of the dataset is handed to the generation
selected_rows_All(rows_, selected) == rows_

\* selected_rows: the records of the rows with Selected == True
RECURSIVE selected_rows(_, _)
selected_rows(rows_, selected) ==
    IF rows_ = <<>> THEN <<>>
    ELSE (IF selected[1] THEN <<rows_[1]>> ELSE <<>>)
         \o selected_rows(Tail(rows_), Tail(selected))

\* the pass ends: st.stop() or the end of the script
EndPass(view) ==
    /\ pc' = "idle"
    /\ ev' = NoEvent
    /\ page' = view
    /\ df_full_final' = <<>>
    /\ h_override_start' = EmptyMap
    /\ h_override_commit' = EmptyMap
    /\ h_reset' = FALSE
    /\ h_new_keys' = {}
    /\ h_prev' = [ok |-> TRUE, resolved |-> df_full_final, fp |-> uploaded_files,
                  sg |-> selected_groups, ov |-> selection_override,
                  ver |-> selection_version]
    /\ UNCHANGED <<uploaded_file, desc_search, manual_selections, h_last_keys>>

\* mutant: the handler of a failed generation clears the selection
GenerationError_Reset(selection) == <<<<>>, <<>>, EmptyMap, 0>>

\* lines 638-640: the handler reports the exception, the selection state
\* <<uploaded_files, selected_groups, selection_override, selection_version>>
\* is what it was
GenerationError(selection) == selection

\* mutant: the validation of the template never stops the pass
StopsOnValidation_Never(validation) == FALSE

\* line 589: if not validation['is_valid']
StopsOnValidation(validation) == ~validation.is_valid

\* the user puts one of the sample spreadsheets into the uploader
UploadSample ==
    /\ pc = "idle"
    /\ \E f \in SampleFiles : uploaded_file' = f
    /\ StartPass(Event("upload", "", FALSE, ""))
    /\ h_prev' = IF uploaded_file' = uploaded_file THEN h_prev ELSE NoPrev
    /\ UNCHANGED <<desc_search, session, generation, edited_rows, display_limit, calls>>

\* the user clicks "Genera N Etichette Selezionate", which the last pass rendered
ClickGenerate ==
    /\ pc = "idle"
    /\ page.view \in {"ready", "generated", "generation_error"}
    /\ StartPass(Event("generate", "", FALSE, ""))
    /\ UNCHANGED <<uploaded_file, desc_search, session, h_prev, generation, edited_rows,
                   display_limit, calls>>

\* lines 548-565: the count of the selected records; none stops the pass
Summary ==
    /\ pc = "finish"
    /\ manual_selections = EmptyMap
    /\ IF \A i \in DOMAIN df_full_final : ~df_full_final[i]
       THEN EndPass(View("no_selection", {}))
       ELSE /\ pc' = "validation"
            /\ UNCHANGED <<uploaded_file, desc_search, ev, manual_selections, df_full_final,
                           page, history>>
    /\ UNCHANGED <<session, template_xml, generation, edited_rows, display_limit, calls>>

\* lines 574-608: the template is read and validated against selected_rows
TemplateValidation ==
    /\ pc = "validation"
    /\ \E t \in SampleTemplates :
          LET validation == validate_data(t, selected_rows(uploaded_file.rows, df_full_final))
          IN  /\ template_xml' = t
              /\ IF StopsOnValidation(validation)
                 THEN EndPass(View("validation_failed", validation.missing))
                 ELSE /\ pc' = "generate"
                      /\ UNCHANGED <<uploaded_file, desc_search, ev, manual_selections,
                                     df_full_final, page, history>>
    /\ UNCHANGED <<session, generation, edited_rows, display_limit, calls>>

\* lines 613-640: the generate button; generate_labels or create_zip_archive
\* may raise, and then nothing is stored
GenerateButton ==
    /\ pc = "generate"
    /\ pc' = "download"
    /\ IF ev.kind = "generate"
       THEN \E raised \in BOOLEAN :
               IF raised
               THEN /\ LET kept == GenerationError(session)
                       IN  /\ uploaded_files' = kept[1]
                           /\ selected_groups' = kept[2]
                           /\ selection_override' = kept[3]
                           /\ selection_version' = kept[4]
                    /\ page' = View("generation_error", {})
                    /\ UNCHANGED generation
               ELSE LET labels == generate_labels(template_xml,
                                      selected_rows(uploaded_file.rows, df_full_final),
                                      DEFAULT_FILENAME_PATTERN)
                    IN  /\ zip_file' = create_zip_archive(labels)
                        /\ num_labels' = Len(labels)
                        /\ generated' = TRUE
                        /\ page' = View("generated", {})
                        /\ UNCHANGED session
       ELSE UNCHANGED <<session, generation, page>>
    /\ UNCHANGED <<uploaded_file, desc_search, ev, manual_selections, df_full_final,
                   template_xml, history, edited_rows, display_limit, calls>>

\* lines 642-675: the download section and the footer end the pass
Download ==
    /\ pc = "download"
    /\ EndPass(IF page = Running THEN View("ready", {}) ELSE page)
    /\ template_xml' = <<>>
    /\ UNCHANGED <<session, generation, edited_rows, display_limit, calls>>

NextGenerate ==
    \/ UploadSample
    \/ ClickGroup
    \/ ClickSelectAll
    \/ ClickClearAll
    \/ ClickSubmit
    \/ ClickGenerate
    \/ Validate
    \/ FingerprintCheck
    \/ Purge
    \/ GroupCheckboxes
    \/ BulkButtons
    \/ FormSubmit
    \/ Resolve
    \/ Prune
    \/ RerunAfterSubmit
    \/ Summary
    \/ TemplateValidation
    \/ GenerateButton
    \/ Download

SpecGenerate == Init /\ [][NextGenerate]_vars

---------------------------------------------------------------------------
(* The page with the edit state of the table, app.py:318-323, 402-408, 464-471 *)

\* the user changes cells of the table inside the form: the widget with the
\* key product_selector_<selection_version> holds the edits, and the form
\* starts no pass before "Applica Selezioni" is clicked
EditTable ==
    /\ TableShown
    /\ page.view = "table"
    /\ edited_rows' = edited_rows \cup {selection_version}
    /\ UNCHANGED <<uploaded_file, desc_search, session, pc, ev, manual_selections,
                   df_full_final, page, template_xml, generation, history, display_limit, calls>>

\* between two passes Streamlit may drop the state of the widgets that the
\* last pass did not render: the keys other than the one of the table shown
ForgetWidgets ==
    /\ pc = "idle"
    /\ edited_rows' = IF page.view = "table" THEN edited_rows \cap {selection_version}
                      ELSE {}
    /\ UNCHANGED <<uploaded_file, desc_search, session, pc, ev, manual_selections,
                   df_full_final, page, template_xml, generation, history, display_limit, calls>>

NextEditor ==
    \/ UploadSample
    \/ ClickGroup
    \/ ClickSelectAll
    \/ ClickClearAll
    \/ ClickSubmit
    \/ EditTable
    \/ ForgetWidgets
    \/ Validate
    \/ FingerprintCheck
    \/ Purge
    \/ GroupCheckboxes
    \/ BulkButtons
    \/ FormSubmit
    \/ Resolve
    \/ Prune
    \/ RerunAfterSubmit
    \/ Render

SpecEditor == Init /\ [][NextEditor]_vars

---------------------------------------------------------------------------
(* The page with the buttons that rerun the script, app.py:325-343, 394-424, 538-546 *)

\* a spreadsheet of n records, each in a group of its own
WideRows(n) == SubSeq(WideProducts, 1, n)

\* a spreadsheet of two groups, one whose groups exceed the display limit
\* and one whose groups exceed the limit after "Mostra altri"
RerunFiles ==
    [present : {TRUE}, name : {"a.csv"}, columns : {Columns},
     rows : {<<Product("b1", "X"), Product("b2", "Y")>>,
             WideRows(groups_display_limit + 1),
             WideRows(groups_display_limit + 11)}]

\* the user puts one of these spreadsheets into the uploader
UploadWide ==
    /\ pc = "idle"
    /\ \E f \in RerunFiles : uploaded_file' = f
    /\ StartPass(Event("upload", "", FALSE, ""))
    /\ h_prev' = IF uploaded_file' = uploaded_file THEN h_prev ELSE NoPrev
    /\ UNCHANGED <<desc_search, session, generation, edited_rows, display_limit, calls>>

\* the script runs on from where it is: the next section of the running pass
RunPass ==
    \/ Validate
    \/ FingerprintCheck
    \/ Purge
    \/ GroupCheckboxes
    \/ BulkButtons
    \/ FormSubmit
    \/ Resolve
    \/ Prune
    \/ RerunAfterSubmit
    \/ Render

\* group checkboxes are clicked and tables submitted on spreadsheets of at
\* most MaxRows rows
NextRerun ==
    \/ UploadWide
    \/ Len(uploaded_file.rows) <= MaxRows /\ ClickGroup
    \/ ClickSelectAll
    \/ ClickClearAll
    \/ Len(uploaded_file.rows) <= MaxRows /\ ClickSubmit
    \/ ClickShowMore
    \/ ClickShowLess
    \/ Validate
    \/ FingerprintCheck
    \/ Purge
    \/ GroupCheckboxes
    \/ BulkButtons
    \/ FormSubmit
    \/ Resolve
    \/ Prune
    \/ RerunAfterSubmit
    \/ Render

\* a started pass is run to its st.stop(), its st.rerun() or its last line
SpecRerun == Init /\ [][NextRerun]_vars /\ WF_vars(RunPass)

---------------------------------------------------------------------------
(* Properties *)

rows == uploaded_file.rows

\* the running pass is past the purge section
PastPurge == pc \in {"groups", "bulk", "form", "resolve", "prune", "finish"}

\* the running pass is past the resolution section
PastResolve == pc \in {"prune", "finish"}

\* the pure group baseline of the record in row i
Baseline(i) == \E p \in DOMAIN selected_groups : selected_groups[p] = rows[i].Group

\* the record with Barcode k is in row i
RowOf(k) == CHOOSE i \in DOMAIN rows : rows[i].Barcode = k

\* the rows the product search hides
HiddenRows ==
    {i \in DOMAIN rows : desc_search # <<>> /\ ~Contains(rows[i].Code, desc_search)
                            /\ ~Contains(rows[i].Desc, desc_search)}

\* C1: in every pass the resolved selection of each record follows the
\* three-tier precedence: the manual edit of the current submit if there is
\* one, otherwise the stored override if there is one, otherwise the record's
\* group baseline.
C1_ThreeTierPrecedence ==
    PastResolve =>
        /\ DOMAIN df_full_final = DOMAIN rows
        /\ \A i \in DOMAIN rows :
              LET k == rows[i].Barcode
              IN  df_full_final[i] =
                    IF k \in DOMAIN manual_selections THEN manual_selections[k]
                    ELSE IF k \in DOMAIN h_override_commit THEN h_override_commit[k]
                    ELSE Baseline(i)

\* a submit edited a record that had a stored override while another record
\* resolves from its stored override and a third tier (baseline) record exists
C1_Witness ==
    /\ pc = "prune"
    /\ \E k \in DOMAIN manual_selections : k \in DOMAIN h_override_commit
    /\ \E k \in DOMAIN h_override_commit : k \notin DOMAIN manual_selections

\* C2: after the prune step of a pass, and while the app waits after a
\* completed pass, no override entry equals the group baseline of its record.
C2_PruneInvariant ==
    (pc = "finish" \/ (pc = "idle" /\ PassesValidation(uploaded_file))) =>
        \A k \in DOMAIN selection_override :
            k \in BarcodesOf(rows) => selection_override[k] # Baseline(RowOf(k))

\* the prune step has just deleted a redundant entry a bulk action had stored
C2_Witness ==
    /\ pc = "finish"
    /\ ev.kind = "rerun"
    /\ \E k \in DOMAIN h_override_commit :
          k \in BarcodesOf(rows) /\ k \notin DOMAIN selection_override

\* C3: commit sets override[k] = v for every manual edit and then deletes
\* every entry equal to its record's baseline: an edited key has an entry
\* exactly when the edit differs from the baseline, an unedited key keeps its
\* entry exactly when that entry differs from the baseline, values unchanged.
C3_CommitThenPrune ==
    pc = "finish" =>
        \A k \in BarcodesOf(rows) :
            LET base == Baseline(RowOf(k))
            IN  IF k \in DOMAIN manual_selections
                THEN /\ k \in DOMAIN selection_override <=> manual_selections[k] # base
                     /\ k \in DOMAIN selection_override =>
                            selection_override[k] = manual_selections[k]
                ELSE /\ k \in DOMAIN selection_override <=>
                            (k \in DOMAIN h_override_commit /\ h_override_commit[k] # base)
                     /\ k \in DOMAIN selection_override =>
                            selection_override[k] = h_override_commit[k]

\* an edit returned a record to its baseline and removed its entry, while an
\* unedited entry was retained
C3_Witness ==
    /\ pc = "finish"
    /\ \E k \in DOMAIN manual_selections :
          k \in DOMAIN h_override_commit /\ k \notin DOMAIN selection_override
    /\ \E k \in DOMAIN h_override_commit :
          k \notin DOMAIN manual_selections /\ k \in DOMAIN selection_override

\* C4: after a group is toggled no record of the full dataset in that group
\* has an override entry, hidden records included, and every record of the
\* group resolves to the new state of the group.
C4_GroupRescope ==
    (ev.kind = "toggle" /\ pc \in {"bulk", "form", "resolve", "prune", "finish"}) =>
        \A i \in DOMAIN rows :
            rows[i].Group = ev.group =>
                /\ rows[i].Barcode \notin DOMAIN selection_override
                /\ PastResolve => df_full_final[i] = ev.checked

\* a toggle cleared the override of a record the search hides
C4_Witness ==
    /\ ev.kind = "toggle"
    /\ pc = "prune"
    /\ \E i \in HiddenRows :
          rows[i].Group = ev.group /\ rows[i].Barcode \in DOMAIN h_override_start


\* C5: a toggle of group g leaves the override entry of every record of
\* another group and the membership of every other group unchanged, and
\* afterwards g is selected exactly when its checkbox is checked.
C5_ToggleFrame ==
    [][(pc = "groups" /\ ev.kind = "toggle") =>
          /\ \A i \in DOMAIN rows :
                rows[i].Group # ev.group =>
                    LET k == rows[i].Barcode
                    IN  /\ k \in DOMAIN selection_override' <=> k \in DOMAIN selection_override
                        /\ k \in DOMAIN selection_override =>
                              selection_override'[k] = selection_override[k]
          /\ \A g \in Groups \ {ev.group} :
                InList(selected_groups', g) <=> InList(selected_groups, g)
          /\ InList(selected_groups', ev.group) <=> ev.checked]_vars

\* a toggle was processed while a record of the group and a record of another
\* group held an override
C5_Witness ==
    /\ pc = "bulk"
    /\ ev.kind = "toggle"
    /\ \E i \in DOMAIN rows :
          rows[i].Group # ev.group /\ rows[i].Barcode \in DOMAIN selection_override
    /\ \E i \in DOMAIN rows :
          rows[i].Group = ev.group /\ rows[i].Barcode \in DOMAIN h_override_start

\* C6: a bulk select (deselect) sets override[k] = true (false) for exactly
\* the Barcodes of the visible records and leaves the entries of the other
\* records and selected_groups unchanged.
C6_BulkFrame ==
    [][(pc = "bulk" /\ ev.kind \in {"select_all", "clear_all"}) =>
          /\ \A i \in DOMAIN rows :
                LET k == rows[i].Barcode
                IN  IF i \in HiddenRows
                    THEN /\ k \in DOMAIN selection_override' <=> k \in DOMAIN selection_override
                         /\ k \in DOMAIN selection_override =>
                               selection_override'[k] = selection_override[k]
                    ELSE /\ k \in DOMAIN selection_override'
                         /\ selection_override'[k] = (ev.kind = "select_all")
          /\ DOMAIN selection_override' \subseteq DOMAIN selection_override \cup BarcodesOf(rows)
          /\ selected_groups' = selected_groups]_vars

\* a bulk action under an active search: a visible record got its entry, a
\* hidden record kept a different one, another hidden record kept none
C6_Witness ==
    /\ pc = "validate"
    /\ ev.kind = "rerun"
    /\ ev.after \in {"select_all", "clear_all"}
    /\ desc_search # <<>>
    /\ \E i \in DOMAIN rows : i \notin HiddenRows
    /\ \E i \in HiddenRows :
          /\ rows[i].Barcode \in DOMAIN selection_override
          /\ selection_override[rows[i].Barcode] # (ev.after = "select_all")

\* C7: in every pass that passes validation the purge removes every override
\* entry whose Barcode is not in the full dataset and leaves every other entry
\* unchanged, so from the group checkboxes to the end of the pass the override
\* keys are Barcodes of the dataset.
C7_PurgeStale ==
    [][/\ pc = "purge" =>
            \A k \in DOMAIN selection_override :
                IF \E i \in DOMAIN rows : rows[i].Barcode = k
                THEN /\ k \in DOMAIN selection_override'
                     /\ selection_override'[k] = selection_override[k]
                ELSE k \notin DOMAIN selection_override'
       /\ (pc' \in {"groups", "bulk", "form", "resolve", "prune", "finish"}) =>
            DOMAIN selection_override' \subseteq {rows[i].Barcode : i \in DOMAIN rows}]_vars

\* a reload under the same fingerprint: the purge deleted a stale entry and
\* kept the entry of a Barcode that is still in the dataset
C7_Witness ==
    /\ pc = "groups"
    /\ ~h_reset
    /\ \E k \in DOMAIN h_override_start : k \notin BarcodesOf(rows)
    /\ \E k \in DOMAIN h_override_start : k \in DOMAIN selection_override

\* C8: a Barcode that was not in the dataset of the previous purge, be it new
\* or re-used after a removal, has no override entry in the pass that first
\* sees it and resolves to its group baseline.
C8_NoResurrection ==
    PastPurge =>
        \A k \in h_new_keys :
            /\ k \notin DOMAIN selection_override
            /\ PastResolve => df_full_final[RowOf(k)] = Baseline(RowOf(k))

\* a reload under the same fingerprint dropped a Barcode that had an override
\* and brought a Barcode the previous dataset did not have
C8_Witness ==
    /\ pc = "finish"
    /\ ev.kind = "upload"
    /\ ~h_reset
    /\ h_new_keys # {}
    /\ \E k \in DOMAIN h_override_start : k \notin BarcodesOf(rows)
    /\ \E i \in DOMAIN rows : Baseline(i)

\* C9: a pass whose (file name, row count) differs from the stored fingerprint
\* empties selected_groups and override and stores the new fingerprint, and
\* every record resolves to unselected at the end of that pass; with an equal
\* fingerprint selected_groups and override are carried over to the purge.
C9_NewUploadReset ==
    [][/\ pc = "fingerprint" =>
            LET differs == /\ uploaded_files # <<>>
                           /\ \/ uploaded_files[1] # uploaded_file.name
                              \/ uploaded_files[2] # Len(rows)
            IN  /\ h_reset' = differs
                /\ differs => selected_groups' = <<>> /\ DOMAIN selection_override' = {}
                /\ ~differs => /\ selected_groups' = selected_groups
                               /\ selection_override' = selection_override
                /\ uploaded_files' = <<uploaded_file.name, Len(rows)>>
       /\ (pc' = "finish" /\ h_reset') =>
            /\ DOMAIN df_full_final' = DOMAIN rows
            /\ \A i \in DOMAIN rows : ~df_full_final'[i]]_vars

\* a new upload reset a session that held overrides and selected groups
C9_Witness ==
    /\ pc = "finish"
    /\ h_reset
    /\ rows # <<>>
    /\ h_override_start # EmptyMap

\* C10: the selection version never decreases.
C10_VersionMonotonic == [][selection_version' >= selection_version]_vars


\* the running pass carries no user edit: a search change, a rerun or a
\* reload of the same file
NoEditPass == pc # "idle" /\ ev.kind \in {"search", "rerun", "upload"}

\* C11: a pass with no user edit that follows a pass which resolved the
\* selection of the same dataset leaves selected_groups, the override and the
\* version as that pass left them and resolves the same selection.
C11_Idempotent ==
    (NoEditPass /\ h_prev.ok) =>
        /\ selected_groups = h_prev.sg
        /\ selection_override = h_prev.ov
        /\ selection_version = h_prev.ver
        /\ PastResolve => df_full_final = h_prev.resolved

\* the rerun after a submit has resolved a selection with an override in it
C11_Witness ==
    /\ pc = "finish"
    /\ ev.kind = "rerun"
    /\ h_prev.ok
    /\ selection_override # EmptyMap
    /\ \E i \in DOMAIN df_full_final : df_full_final[i]
    /\ \E i \in DOMAIN df_full_final : ~df_full_final[i]


\* C12: the same records in another row order, with the same selected_groups
\* and the same override, resolve to the same selection by Barcode and leave
\* the same override after the prune.
C12_OrderIndependent ==
    fn_result.fn = "reconcile" => fn_result.first = fn_result.second

\* two different row orders were reconciled, the prune removed an override
\* and kept another, and a record resolved to selected
C12_Witness ==
    /\ fn_result.fn = "reconcile"
    /\ fn_args.rows # fn_args.reordered
    /\ fn_result.first.override # EmptyMap
    /\ fn_result.first.override # fn_args.override
    /\ \E k \in DOMAIN fn_result.first.resolved : fn_result.first.resolved[k]


\* the rows whose Barcode another row carries too, and the rows without Barcode
SharedKeyRows == {i \in DOMAIN rows : \E j \in DOMAIN rows \ {i} : rows[j].Barcode = rows[i].Barcode}
EmptyKeyRows == {i \in DOMAIN rows : rows[i].Barcode = ""}

\* C13: a pass on a dataset with a duplicated or an empty Barcode lists the
\* offending rows (every row sharing a duplicated Barcode) and stops before
\* the fingerprint check, the purge and every selection step: the stored
\* fingerprint, selected_groups, the override and the version stay as they were.
C13_FailFast ==
    [][(/\ pc = "validate"
        /\ uploaded_file.present
        /\ "Barcode" \in uploaded_file.columns
        /\ (SharedKeyRows # {} \/ EmptyKeyRows # {}))
       => /\ pc' = "idle"
          /\ UNCHANGED session
          /\ SharedKeyRows # {} =>
                 page' = View("duplicate_barcodes", SharedKeyRows)
          /\ (SharedKeyRows = {} /\ Cardinality(EmptyKeyRows) <= head_limit) =>
                 page' = View("empty_barcodes", EmptyKeyRows)]_vars

\* a pass stopped on the list of both rows of a duplicated Barcode while the
\* session held selected groups, an override and a fingerprint
C13_Witness ==
    /\ pc = "idle"
    /\ page.view = "duplicate_barcodes"
    /\ Cardinality(page.listed) = 2
    /\ selected_groups # <<>>
    /\ selection_override # EmptyMap
    /\ uploaded_files # <<>>


\* the uploaded spreadsheet has no column Barcode
NoBarcodeColumn == uploaded_file.present /\ "Barcode" \notin uploaded_file.columns

\* its Code values are unique and non-empty
UniqueCodes ==
    \A i, j \in DOMAIN rows : rows[i].Code # <<>> /\ (i # j => rows[i].Code # rows[j].Code)

\* C14 as stated: a dataset without the column Barcode but with unique Code
\* values is still loaded, the pass going on to the selection steps with Code
\* as the stable key.
C14_CodeFallback ==
    [][(pc = "validate" /\ NoBarcodeColumn /\ UniqueCodes) => pc' = "fingerprint"]_vars

\* C14 amended: the stable key is always the Barcode field.  A dataset
\* without the column Barcode is not loaded: the pass reports the missing
\* column and stops before every selection step, the session unchanged; the
\* passes that get to the selection steps run on a dataset with the column
\* Barcode and key every override by a Barcode of it.
C14_BarcodeRequired ==
    [][/\ (pc = "validate" /\ NoBarcodeColumn) =>
            /\ pc' = "idle"
            /\ page' = View("no_barcode_column", {})
            /\ UNCHANGED session
       /\ pc' \in {"groups", "bulk", "form", "resolve", "prune", "finish"} =>
            /\ "Barcode" \in uploaded_file'.columns
            /\ DOMAIN selection_override' \subseteq BarcodesOf(uploaded_file'.rows)]_vars

\* a pass stopped on the missing column Barcode while the session held
\* selected groups and an override
C14_Witness ==
    /\ pc = "idle"
    /\ NoBarcodeColumn
    /\ page.view = "no_barcode_column"
    /\ selected_groups # <<>>
    /\ selection_override # EmptyMap


\* the words the template of the call holds between braces, and those of
\* them that are no column of the rows of the call
CallPlaceholders ==
    {w \in Words : \E i \in DOMAIN fn_args.template_xml :
        fn_args.template_xml[i] = <<"{{", w, "}}">>}
CallFields == IF fn_args.data_rows = <<>> THEN {} ELSE DOMAIN fn_args.data_rows[1]
CallMissing == CallPlaceholders \ CallFields

\* missing lists exactly the placeholders without a data field, in sorted order
MissingListed ==
    LET missing == fn_result.value.missing
    IN  /\ {missing[i] : i \in DOMAIN missing} = CallMissing
        /\ \A i, j \in DOMAIN missing : i < j => WordRank(missing[i]) < WordRank(missing[j])

KeyMatchedRows ==
    {i \in DOMAIN fn_args.product_df :
        \E j \in DOMAIN fn_args.ean_df : fn_args.ean_df[j].Code = fn_args.product_df[i].Code}

\* C18: the statistics of the join give the number of product rows as total,
\* the number of product rows whose Code occurs in the EAN file as matched,
\* unmatched = total - matched, and every unmatched row has an empty Barcode.
C18_JoinStatistics ==
    fn_result.fn = "merge_product_ean_data" =>
        LET stats == fn_result.value.statistics
        IN  /\ stats.total = Len(fn_args.product_df)
            /\ stats.matched = Cardinality(KeyMatchedRows)
            /\ stats.unmatched = stats.total - stats.matched
            /\ \A i \in DOMAIN fn_args.product_df \ KeyMatchedRows :
                   fn_result.value.merged_df[i].Barcode = ""


\* C19: the archive built from a selection holds exactly as many files as
\* there are selected records, and the filled label of every selected record
\* can be read from it.
C19_OneFilePerRecord ==
    fn_result.fn = "generate_labels" =>
        /\ Len(namelist(fn_result.zip_buffer)) = Len(fn_args.data_rows)
        /\ \A i \in DOMAIN fn_args.data_rows :
               \E name \in {fn_result.zip_buffer[j].filename : j \in DOMAIN fn_result.zip_buffer} :
                  read(fn_result.zip_buffer, name)
                      = fill_template(fn_args.template_xml, fn_args.data_rows[i])


\* the rows of the run after the row limit
CliRowsAfterLimit ==
    IF fn_args.limit = 0 THEN fn_args.rows
    ELSE IF fn_args.limit > 0
         THEN SubSeq(fn_args.rows, 1,
                     IF fn_args.limit < Len(fn_args.rows) THEN fn_args.limit
                     ELSE Len(fn_args.rows))
    ELSE SubSeq(fn_args.rows, 1,
                IF Len(fn_args.rows) + fn_args.limit > 0
                THEN Len(fn_args.rows) + fn_args.limit ELSE 0)

\* C20: the batch CLI ends with a nonzero exit status and writes no file
\* when the template file is missing, when the data file is missing and when
\* the input has no rows after the row limit.
C20_CliAborts ==
    fn_result.fn = "main" =>
        ((\/ ~fn_args.template_exists
          \/ ~fn_args.data_exists
          \/ (fn_args.suffix = ".csv" /\ CliRowsAfterLimit = <<>>))
         => /\ fn_result.value.exit_status # 0
            /\ fn_result.value.files = EmptyMap)


\* C15: after a generation that failed while the labels were filled or the
\* archive was built, the stored fingerprint, selected_groups, the override
\* and the version are what they were before the click, and the pass
\* resolved the selection the page showed before it, so a retry generates
\* from the same selection.
C15_FailureFrame ==
    (pc = "download" /\ page.view = "generation_error") =>
        /\ h_prev.ok
        /\ uploaded_files = h_prev.fp
        /\ selected_groups = h_prev.sg
        /\ selection_override = h_prev.ov
        /\ selection_version = h_prev.ver
        /\ df_full_final = h_prev.resolved

\* a generation failed in a session with a selected group, an override and
\* a version above zero
C15_Witness ==
    /\ pc = "download"
    /\ page.view = "generation_error"
    /\ selected_groups # <<>>
    /\ selection_override # EmptyMap
    /\ selection_version > 0

\* the placeholders of a template that are no column of the dataset
MissingIn(template) ==
    {w \in Words : /\ \E i \in DOMAIN template : template[i] = <<"{{", w, "}}">>
                   /\ w \notin uploaded_file.columns}

\* C16: the generation step is reached only in a pass whose template
\* validation succeeded.  When a placeholder of the template has no data
\* field the pass lists the missing names and stops before the generation
\* step, and the cached archive is not written in that pass; the archive is
\* written only by the generation step of a pass with a valid template.
C16_ValidationGate ==
    [][/\ (pc = "validation" /\ MissingIn(template_xml') # {}) =>
            /\ pc' = "idle"
            /\ page'.view = "validation_failed"
            /\ {page'.listed[i] : i \in DOMAIN page'.listed} = MissingIn(template_xml')
            /\ UNCHANGED generation
       /\ pc' = "generate" => MissingIn(template_xml') = {}
       /\ generation' # generation =>
            (pc = "generate" /\ MissingIn(template_xml) = {})]_vars

\* a pass stopped on the list of the missing placeholder while the archive
\* of an earlier generation was cached
C16_Witness ==
    /\ pc = "idle"
    /\ page = View("validation_failed", <<"Missing">>)
    /\ generated
    /\ zip_file # <<>>

---------------------------------------------------------------------------
(* File names, utils.py:223-259 and generate_dymo_files.py:26-39 *)

OrdinalName == <<"l", "a", "b", "e", "l", "_">> \o Digits(fn_args.row_index) \o dymo_suffix

\* the placeholder of the pattern is invalid or names a field the record lacks
HasUnusablePlaceholder ==
    \E i \in DOMAIN fn_args.pattern :
        part_exception(fn_args.pattern[i], fn_args.row_data) # "none"

\* C21: build_filename never fails: with a placeholder that is invalid or
\* names a field missing from the record it returns label_<ordinal>.dymo, and
\* every name it returns is non-empty, at most 180 characters long and holds
\* no path separator.
C21_NeverFails ==
    fn_result.fn = "build_filename" =>
        /\ fn_result.value.raised = "none"
        /\ HasUnusablePlaceholder => fn_result.value.name = OrdinalName
        /\ Len(fn_result.value.name) \in 1..max_filename
        /\ \A i \in DOMAIN fn_result.value.name :
              fn_result.value.name[i] \notin {"/", "\\", ":"}

---------------------------------------------------------------------------
(* The version counter, app.py:302-323, 394-424, 538-546 *)

\* the step at hand is a group toggle, a bulk select/deselect or the end of
\* a form submit that changed the value of at least one record
VersionedStep ==
    \/ pc = "groups" /\ ev.kind = "toggle"
    \/ pc = "bulk" /\ ev.kind \in {"select_all", "clear_all"}
    \/ pc = "finish" /\ manual_selections # EmptyMap

\* C22: every group toggle, every bulk select/deselect and every form submit
\* that changes at least one record increases the version by exactly one, and
\* nothing else in the passes of these actions, of a submit without a changed
\* value, of a search change or of a re-render changes the version (the
\* new-upload reset of lines 228-233 belongs to none of these passes).
C22_VersionStep ==
    [][\/ pc = "fingerprint" /\ IsNewUpload(uploaded_files, uploaded_file)
       \/ selection_version' =
             IF VersionedStep THEN selection_version + 1 ELSE selection_version]_vars

\* a pass with a group toggle has run after an action that raised the version
C22_Witness ==
    /\ pc = "bulk"
    /\ ev.kind = "toggle"
    /\ selection_version = 2

---------------------------------------------------------------------------
(* A bulk action and the pass it triggers, app.py:394-424 and 500-536 *)

\* the pass that st.rerun() started after a bulk select or deselect
BulkRerun == ev.kind = "rerun" /\ ev.after \in {"select_all", "clear_all"}

\* the value a record resolves to after the bulk action: the value of the
\* action when the record was visible, its value before the action when not
AfterBulk(i) ==
    IF i \in HiddenRows THEN h_prev.resolved[i] ELSE ev.after = "select_all"

\* C23: the bulk action does not prune when it stores its entries, and the
\* resolution of the pass it triggers reflects it: every visible record
\* resolves to the value of the action, also once an entry equal to the group
\* baseline has been pruned, and every non-visible record resolves to the
\* value it had before the action.
C23_BulkThenResolve ==
    BulkRerun =>
        /\ Len(h_prev.resolved) = Len(rows)
        /\ pc \in {"validate", "fingerprint", "purge", "groups", "bulk", "form", "resolve"} =>
              \A i \in DOMAIN rows \ HiddenRows :
                  /\ rows[i].Barcode \in DOMAIN selection_override
                  /\ selection_override[rows[i].Barcode] = (ev.after = "select_all")
        /\ PastResolve => \A i \in DOMAIN rows : df_full_final[i] = AfterBulk(i)
        /\ pc = "finish" =>
              \A i \in DOMAIN rows :
                  ResolveSelected(rows, selected_groups, selection_override, EmptyMap)[i]
                      = AfterBulk(i)

\* after "select visible" under a search: a visible record of a selected
\* group has lost its entry to the prune, a hidden record keeps its value
C23_Witness ==
    /\ BulkRerun
    /\ pc = "finish"
    /\ ev.after = "select_all"
    /\ HiddenRows # {}
    /\ \E i \in DOMAIN rows \ HiddenRows :
          Baseline(i) /\ rows[i].Barcode \notin DOMAIN selection_override

---------------------------------------------------------------------------
(* The diff of a form submit, app.py:444-455, 476-495, 511-519 *)

\* the displayed frame of the call, its Selected column before the edit, and
\* the rows the user changed
CallView == DisplayRows(fn_args.rows, fn_args.term)
CallBefore ==
    DisplaySelected(fn_args.rows, fn_args.term, fn_args.sg, fn_args.override)
CallChanged == {i \in DOMAIN CallView : CallBefore[i] # fn_args.edited[i]}

\* C24: manual edits are diffed by Barcode, never by row position: the
\* manual edits of a submit are exactly the keys whose value before and after
\* differ, with the value after, whatever the row order of the edited view;
\* an edit of a row of a filtered or sorted view is committed to the record
\* of the full dataset that carries the row's Barcode, and the record at that
\* position of the full dataset is left alone unless it was edited itself.
C24_DiffByKey ==
    fn_result.fn = "submit" =>
        /\ DOMAIN fn_result.value.manual = {CallView[i].Barcode : i \in CallChanged}
        /\ \A i \in CallChanged :
              /\ fn_result.value.manual[CallView[i].Barcode] = fn_args.edited[i]
              /\ fn_result.value.resolved[FirstIndex(fn_args.rows, CallView[i].Barcode)]
                    = fn_args.edited[i]
        /\ \A j \in DOMAIN fn_args.rows :
              fn_args.rows[j].Barcode \notin {CallView[i].Barcode : i \in CallChanged} =>
                  fn_result.value.resolved[j] =
                      ResolveSelected(fn_args.rows, fn_args.sg, fn_args.override, EmptyMap)[j]

\* the search hides the first record, the editor returns the two rows left
\* in the other order, and the row at position 1 of the view was edited
C24_Witness ==
    /\ fn_result.fn = "submit"
    /\ fn_args.rows = ScenarioRows
    /\ fn_args.term # <<>>
    /\ fn_args.order = <<2, 1>>
    /\ CallChanged = {1}
    /\ FirstIndex(fn_args.rows, CallView[1].Barcode) = 2

---------------------------------------------------------------------------
(* The commit of manual edits, app.py:476-536 *)

\* the Barcodes the user changed, the value the record of a Barcode had in
\* the pass before the commit, and its pure group baseline
CallEditedKeys == {CallView[i].Barcode : i \in CallChanged}
CallResolvedBefore ==
    ResolveSelected(fn_args.rows, fn_args.sg, fn_args.override, EmptyMap)
CallBaseline(k) == InList(fn_args.sg, GroupOf(fn_args.rows, k))

\* C25: committing manual edits changes the resolved selection at exactly
\* the edited keys: in the commit and in a resolution from the override it
\* leaves, every edited record has its edited value and every other record,
\* visible or hidden, the value it had before; an edit that deviates from the
\* baseline has an override entry, and no entry is created for another key.
C25_CommitFrame ==
    fn_result.fn = "submit" =>
        LET after == fn_result.value
            again == ResolveSelected(fn_args.rows, fn_args.sg, after.override, EmptyMap)
        IN  /\ \A j \in DOMAIN fn_args.rows :
                  LET k == fn_args.rows[j].Barcode
                      value == IF k \in CallEditedKeys THEN after.manual[k]
                               ELSE CallResolvedBefore[j]
                  IN  /\ after.resolved[j] = value
                      /\ again[j] = value
                      /\ k \in CallEditedKeys => value # CallResolvedBefore[j]
            /\ \A k \in CallEditedKeys :
                  after.manual[k] # CallBaseline(k) =>
                      k \in DOMAIN after.override /\ after.override[k] = after.manual[k]
            /\ DOMAIN after.override \ DOMAIN fn_args.override \subseteq
                  {k \in CallEditedKeys : after.manual[k] # CallBaseline(k)}

\* group X of two records is selected and one of them is deselected:
\* override = {key1: false}, resolved = {key1: false, key2: true, key3: false}
C25_Witness ==
    /\ fn_result.fn = "submit"
    /\ fn_args.rows = ScenarioRows
    /\ fn_args.sg = <<"X">>
    /\ fn_args.override = EmptyMap
    /\ fn_args.edited = <<FALSE, TRUE, FALSE>>
    /\ fn_result.value.override = [k \in {"b2"} |-> FALSE]
    /\ fn_result.value.resolved = <<FALSE, TRUE, FALSE>>

---------------------------------------------------------------------------
(* Records without a Barcode, app.py:195-207, 396-400, 480-489 *)

\* the pass is in one of the sections that resolve and store selections
InSelectionSteps ==
    pc \in {"fingerprint", "purge", "groups", "bulk", "form", "resolve", "prune", "finish"}

\* the pass on the loaded dataset is over and the dataset has a record
\* without Barcode
KeylessLoaded ==
    /\ pc = "idle"
    /\ uploaded_file.present
    /\ "Barcode" \in uploaded_file.columns
    /\ EmptyKeyRows # {}

\* C26, as claimed: a record whose Barcode is absent or null never gets an
\* override entry from a group toggle, a bulk action or a manual edit, yet it
\* is still resolved, with its group baseline alone as its resolved value.
C26_KeylessBaseline ==
    /\ "" \notin DOMAIN selection_override
    /\ KeylessLoaded =>
          /\ page.view = "table"
          /\ h_prev.ok
          /\ \A i \in EmptyKeyRows : h_prev.resolved[i] = Baseline(i)

\* C26, amended: a record whose Barcode is absent or empty never gets an
\* override entry, because its dataset is rejected: the pass lists the rows
\* without Barcode (or the duplicated ones) and stops before every selection
\* step, so no record of the dataset is resolved, and every record that
\* reaches the selection steps has a Barcode.
C26_KeylessRejected ==
    /\ "" \notin DOMAIN selection_override
    /\ InSelectionSteps => EmptyKeyRows = {}
    /\ KeylessLoaded =>
          /\ page.view \in {"empty_barcodes", "duplicate_barcodes"}
          /\ page.view = "empty_barcodes" => page.listed = EmptyKeyRows
          /\ h_prev = NoPrev

\* the pass stopped on the row without Barcode of a dataset that also has a
\* record with a Barcode, while the group of both was selected
C26_Witness ==
    /\ KeylessLoaded
    /\ page = View("empty_barcodes", {2})
    /\ Len(rows) = 2
    /\ \A i \in DOMAIN rows : Baseline(i)

---------------------------------------------------------------------------
(* The edit state of the table, app.py:318-323, 402-408, 464-471 *)

\* a group toggle or a bulk action of the running pass has changed the
\* selection, and the table of the new version is rendered next
AfterToggleOrBulk ==
    \/ ev.kind = "toggle" /\ pc \in {"bulk", "form", "resolve", "prune", "finish"}
    \/ BulkRerun

\* C27: whenever a group toggle or a bulk action changes the selection, the
\* edit state the table reads in the following render, keyed by the new
\* version, is empty, after any sequence of actions, a new-upload reset
\* included.
C27_BufferDiscarded ==
    AfterToggleOrBulk => selection_version \notin edited_rows

---------------------------------------------------------------------------
(* The dry run of the batch CLI, generate_dymo_files.py:91-110 *)

\* C28: with --dry-run the CLI previews at most one example, the one of the
\* first row, and exits without creating the output directory and without
\* writing a file, whatever the input and the other flags.
C28_DryRunWritesNothing ==
    (fn_result.fn = "main" /\ fn_args.dry_run) =>
        /\ ~fn_result.value.out_created
        /\ fn_result.value.files = EmptyMap
        /\ Len(fn_result.value.preview) <= 1
        /\ fn_result.value.preview # <<>> =>
              /\ fn_result.value.exit_status = 0
              /\ fn_result.value.preview[1].content =
                    fill_template(fn_args.template_xml, fn_args.rows[1])
              /\ fn_result.value.preview[1].filename =
                    build_filename(fn_args.name, fn_args.rows[1], 1).name

\* a dry run over two rows without a limit printed the example of the first
C28_Witness ==
    /\ fn_result.fn = "main"
    /\ fn_args.dry_run
    /\ fn_args.limit = 0
    /\ Len(fn_args.rows) = 2
    /\ Len(fn_result.value.preview) = 1

---------------------------------------------------------------------------
(* Sparse overrides and a full selection, app.py:298-323, 394-424, 497-536 *)

\* the selection the session state stands for: one boolean per record of
\* the dataset, resolved from selected_groups and the override alone
Resolved == ResolveSelected(rows, selected_groups, selection_override, EmptyMap)

\* the same selection after the step at hand in the reference model, which
\* stores one boolean per record: a group toggle sets every member of the
\* group, a bulk action every visible record, a commit every edited record,
\* and nothing else (the prune included) changes a value
Reference ==
    [i \in DOMAIN rows |->
        IF pc = "groups" /\ ev.kind = "toggle" /\ rows[i].Group = ev.group
        THEN ev.checked
        ELSE IF pc = "bulk" /\ ev.kind \in {"select_all", "clear_all"} /\ i \notin HiddenRows
        THEN ev.kind = "select_all"
        ELSE IF pc = "resolve" /\ rows[i].Barcode \in DOMAIN manual_selections
        THEN manual_selections[rows[i].Barcode]
        ELSE Resolved[i]]

\* C29: for a fixed valid dataset, after any sequence of group toggles, bulk
\* actions under any search and committed manual edits the resolved
\* selection is the one of the reference model with one boolean per record:
\* every step changes it as the reference model does, the resolved column
\* of a pass is that selection, and the prune changes no value.
C29_ReferenceModel ==
    [][(/\ PassesValidation(uploaded_file)
        /\ uploaded_file' = uploaded_file
        /\ ev.kind # "upload")
       => /\ Resolved' = Reference
          /\ pc = "resolve" => df_full_final' = Reference]_vars

\* after a bulk action under a search, the prune of a commit has removed an
\* entry of the override while a record is hidden
C29_Witness ==
    /\ pc = "finish"
    /\ manual_selections # EmptyMap
    /\ HiddenRows # {}
    /\ selection_version > 0
    /\ selection_override # PersistManual(h_override_commit, rows, manual_selections)

---------------------------------------------------------------------------
(* The selection that reaches validation and generation, app.py:548-565, 613-634 *)

\* the rows that resolve to selected in the running pass
SelectedNow == {i \in DOMAIN df_full_final : df_full_final[i]}

\* C30: validation and generation are reached only with a non-empty
\* selection: a pass in which no record resolves to selected stops before
\* the template is read and validated, and when the generation runs it
\* produces as many labels as records resolve to selected in that pass.
C30_NonEmptySelection ==
    /\ pc \in {"validation", "generate", "download"} => SelectedNow # {}
    /\ (pc = "idle" /\ page.view = "no_selection") =>
          /\ h_prev.ok
          /\ \A i \in DOMAIN h_prev.resolved : ~h_prev.resolved[i]
          /\ template_xml = <<>>
    /\ (pc = "idle" /\ page.view \in {"ready", "generated", "generation_error",
                                      "validation_failed"}) =>
          \E i \in DOMAIN h_prev.resolved : h_prev.resolved[i]
    /\ (pc = "download" /\ page.view = "generated") =>
          /\ num_labels = Cardinality(SelectedNow)
          /\ Len(zip_file) = Cardinality(SelectedNow)

\* one of the two records of the dataset is selected and its label was
\* generated
C30_Witness ==
    /\ pc = "download"
    /\ page.view = "generated"
    /\ Len(rows) = 2
    /\ num_labels = 1

---------------------------------------------------------------------------
(* The cached archive, app.py:229-235, 617-640, 642-661 *)

\* the generate button was clicked and neither generate_labels nor
\* create_zip_archive raised (lines 621-634)
SuccessfulGeneration ==
    /\ pc = "generate"
    /\ ev.kind = "generate"
    /\ page'.view = "generated"

\* C31: st.session_state['zip_file'] and ['num_labels'] are written only by
\* a successful generation, which writes both (and the flag 'generated'):
\* the archive of the labels of the records selected in that pass and their
\* number.  Every other step (group toggle, bulk action, submit of manual
\* edits, reload of the file, reset on a new upload, failed generation)
\* leaves both as they were, so the download section always offers an
\* archive together with the count of its entries.
C31_ArchiveFrame ==
    [][/\ SuccessfulGeneration =>
            /\ zip_file' = create_zip_archive(generate_labels(template_xml,
                               selected_rows(uploaded_file.rows, df_full_final),
                               DEFAULT_FILENAME_PATTERN))
            /\ num_labels' = Cardinality(SelectedNow)
            /\ generated'
       /\ ~SuccessfulGeneration => UNCHANGED <<zip_file, num_labels, generated>>
       /\ IF generated'
          THEN zip_file' # <<>> /\ Len(zip_file') = num_labels'
          ELSE zip_file' = <<>> /\ num_labels' = 0]_vars

\* the download section is reached without a generation in a session that
\* generated two labels, was reset for a spreadsheet of one record and had
\* that record selected: it offers the archive of the two labels
C31_Witness ==
    /\ pc = "download"
    /\ ev.kind # "generate"
    /\ Len(uploaded_file.rows) = 1
    /\ SelectedNow = {1}
    /\ generated
    /\ Len(zip_file) = 2
    /\ num_labels = 2

---------------------------------------------------------------------------
(* Reruns and the end of a pass, app.py:325-343, 394-424, 476-495, 538-546 *)

\* the running pass calls st.rerun(): the script starts again from the top
RerunRequested == pc # "idle" /\ pc' = "validate"

\* the submitted table differs from the displayed one in the value of a record
SubmitChangedValue ==
    \E i \in DOMAIN uploaded_file.rows :
        LET bc == uploaded_file.rows[i].Barcode
        IN  /\ bc \in DOMAIN manual_selections
            /\ manual_selections[bc] #
                   ResolveSelected(uploaded_file.rows, selected_groups,
                                   h_override_commit, EmptyMap)[i]

\* C32: a pass requests a rerun only in the handler of "Mostra altri" or
\* "Mostra meno", of a bulk button, or after a submit that changed the value
\* of at least one record; a pass started by a rerun requests none, so an
\* interaction is followed by at most two passes; and every started pass
\* comes to its end, after which the page waits for the next interaction.
C32_Quiescence ==
    /\ [][RerunRequested =>
            /\ ev.kind # "rerun"
            /\ ev'.kind = "rerun"
            /\ \/ pc = "groups" /\ ev.kind \in {"show_more", "show_less"}
               \/ pc = "bulk" /\ ev.kind \in {"select_all", "clear_all"}
               \/ pc = "finish" /\ ev.kind = "submit" /\ SubmitChangedValue]_vars
    /\ (pc # "idle") ~> (pc = "idle")

\* the pass rerun by the second "Mostra altri" has come to its last section
C32_Witness ==
    /\ pc = "finish"
    /\ ev.kind = "rerun"
    /\ ev.after = "show_more"
    /\ display_limit = groups_display_limit + 20

====
